---------------------------- MODULE Spec2Model ----------------------------
(***************************************************************************)
(* TRH Desktop: the setup pipeline of the renderer (SetupPage.runSetup),   *)
(* the main process that serves its requests (ipcMain handlers, tray menu, *)
(* before-quit) and the runtime gateway (docker.ts) they call.             *)
(*                                                                         *)
(* The renderer and the main process are two event loops.  A request of    *)
(* the renderer (ipcRenderer.invoke) waits in `req` until the main process *)
(* takes it; what the main process sends back (progress events, the reply  *)
(* of the invoke) travels in the FIFO `chan`.  Every action is one         *)
(* run-to-completion turn of one of the two loops: a handler from its      *)
(* entry to its next await.                                                *)
(***************************************************************************)
EXTENDS Integers, Sequences, FiniteSets, TLC

\* ------------------------------------------------------------------ bounds

\* Progress events one subprocess may still emit (pull lines, install lines).
MaxEvents == 1

\* Length of the health wait in polling intervals (timeoutMs / HEALTH_CHECK_INTERVAL).
HealthTicks == 2

\* ------------------------------------------------------- program constants

\* for (let attempt = 0; attempt < 3; attempt++)
MaxAttempts == 3

StepKeys == <<"docker", "images", "containers", "deps", "ready">>

StepSet == {StepKeys[i] : i \in 1..Len(StepKeys)}

StepIndex(k) == CHOOSE i \in 1..Len(StepKeys) : StepKeys[i] = k

Tools == {"pnpm", "node", "forge", "aws"}

\* The owners of an operation of the main process: the renderer's invoke, the
\* two tray menu items, the before-quit handler.
Owners == {"ipc", "trayRestart", "trayStop", "quit"}

\* --------------------------------------------------------- error messages

MsgInProgress == "Docker operation already in progress"
MsgComposeMissing == "Docker Compose file not found"
MsgPullTimeout == "Image pull timed out after 10 minutes. Check your internet connection."
MsgPullFailed == "Docker pull failed with code N. Check if images exist or network is available."
MsgSpawnError == "spawn docker ENOENT"
MsgUpTimeout == "Container startup timed out. Docker may be unresponsive."
MsgUpFailed == "Docker compose up failed with code N."
MsgPortConflict == "Port conflict detected. Another process is using required ports."
MsgNoImage == "Required Docker images not found. Please pull images first."
MsgCannotConnect == "Cannot connect to Docker daemon. Is Docker Desktop running?"
MsgInvalidCredentials == "Invalid email format"
MsgDownTimeout == "Container shutdown timed out. Try force-stopping Docker containers manually."
MsgDownFailed == "Docker compose down failed with code N"
MsgPortStillInUse == "Port P is still in use after killing processes. You may need to free it manually."
MsgDownloadFailed == "Failed to download dependency installer"
MsgInstallFailed == "Dependency installation failed with code N"

\* A test that takes every failure for a port failure.
everyErrorIsPortError(msg) == TRUE

\* msg.toLowerCase().includes('port') || ...includes('address already in use'):
\* of the messages above, the two that hold the letters "port".
isPortError(msg) == msg \in {MsgPortConflict, MsgPortStillInUse}

\* setError(null); `missing` are the tools a "Still missing: ..." message names.
NoError == [title |-> "", message |-> "", missing |-> {}]


\* ---------------------------------------------------------------- state

VARIABLES
    \* renderer: App and SetupPage
    page,               \* App's page: "config", "setup" or "ready"
    pendingEffects,     \* runs of SetupPage's mount effect that React still owes
    steps,              \* step key -> "pending" | "loading" | "success" | "error"
    pc,                 \* the await runSetup is suspended at
    runningRef,         \* runningRef.current
    error,              \* the error box: [title, message], NoError for null
    showRetry,
    showInstallDocker,
    portModal,          \* [open, conflicts]
    attempt,            \* the loop variable of the container start loop
    listeners,          \* the channels the run has a listener on
    \* between the two processes
    req,                \* the invoke the main process has not taken yet
    chan,               \* main -> renderer, in order: events and invoke replies
    \* main process
    dockerOperationInProgress,
    isQuitting,
    appState,           \* "running", "teardown" (before-quit awaits compose down), "exited"
    hstate,             \* owner -> the subprocess its handler awaits, or "idle"
    zombies,            \* subprocesses whose operation timed out and that still live
    hElapsed,           \* waitForHealthy: intervals elapsed since startTime
    hSawHealthy,        \* waitForHealthy: a status query of this call reported healthy
    \* what the run did, for the properties
    nResolve,           \* resolvePortConflicts calls of the current run
    nStart,             \* api.docker.start calls of the current run
    dockerChecked,      \* the current run has passed both Docker checks
    completions,        \* calls of onComplete
    cmdOutcome,         \* how the last call of runSetup ended
    teardownAttempts,   \* compose down spawned by the before-quit handler
    \* a gateway function called on its own
    fx,                 \* the function, its inputs and, once called, its result
    progress,           \* steps.images.progress, the percentage of the pull bar
    nInstall,           \* api.docker.installBackendDeps calls of the current run
    nDepCheck,          \* api.docker.checkBackendDeps calls of the current run
    \* renderer: App's status check at start-up
    appStatus,          \* api.docker.getStatus(): "asked", the reply under way, or seen
    \* gateway: the subprocesses and their registry
    procs,              \* subprocess -> what it runs, whether alive, signals, timers
    activeProcesses,    \* the Set activeProcesses
    shutdown            \* cleanupProcesses(): "no", "signalled", or "graceOver" 5 s later

rendererVars == <<page, pendingEffects, steps, pc, runningRef, error, showRetry,
                  showInstallDocker, portModal, attempt, listeners>>

ipcVars == <<req, chan>>

mainVars == <<dockerOperationInProgress, isQuitting, appState, hstate, zombies,
              hElapsed, hSawHealthy>>

histVars == <<nResolve, nStart, dockerChecked, completions, cmdOutcome, teardownAttempts, fx,
              progress, nInstall, nDepCheck>>

gatewayVars == <<procs, activeProcesses, shutdown>>

vars == <<rendererVars, ipcVars, mainVars, histVars, appStatus, gatewayVars>>

\* No gateway function is called on its own.
NoFx == [f |-> "none", done |-> TRUE]

NoReq == [op |-> "none", arg |-> {}]

Invoke(op) == [op |-> op, arg |-> {}]

Event(ch) == [t |-> "ev", op |-> ch, ok |-> TRUE, val |-> ""]

Reply(op, ok, val) == [t |-> "reply", op |-> op, ok |-> ok, val |-> val]

\* useState(...) of SetupPage, and what "Reset all steps" sets again.
ResetSteps == [k \in StepSet |-> "pending"]

ClosedModal == [open |-> FALSE, conflicts |-> {}]

\* The application after start-up: the config page shows, nothing is running.
InitApp ==
    /\ page = "config"
    /\ pendingEffects = 0
    /\ steps = ResetSteps
    /\ pc = "idle"
    /\ runningRef = FALSE
    /\ error = NoError
    /\ showRetry = FALSE
    /\ showInstallDocker = FALSE
    /\ portModal = ClosedModal
    /\ attempt = 0
    /\ listeners = {}
    /\ req = NoReq
    /\ chan = <<>>
    /\ dockerOperationInProgress = FALSE
    /\ isQuitting = FALSE
    /\ appState = "running"
    /\ hstate = [o \in Owners |-> "idle"]
    /\ zombies = {}
    /\ hElapsed = 0
    /\ hSawHealthy = FALSE
    /\ nResolve = 0
    /\ nStart = 0
    /\ dockerChecked = FALSE
    /\ completions = 0
    /\ cmdOutcome = "none"
    /\ teardownAttempts = 0
    /\ progress = 0
    /\ nInstall = 0
    /\ nDepCheck = 0

\* A subprocess not launched yet.
NoProc ==
    [kind |-> "none", alive |-> FALSE, killed |-> FALSE, timer |-> FALSE,
     signals |-> {}, graceTimer |-> FALSE, tracked |-> FALSE]

\* The most subprocesses looked at together.
MaxProcs == 2

ProcIds == 1..MaxProcs

\* const activeProcesses = new Set<ChildProcess>(), nothing launched.
GatewayIdle ==
    /\ procs = [id \in ProcIds |-> NoProc]
    /\ activeProcesses = {}
    /\ shutdown = "no"

\* The renderer lives as long as the application does.  App's status check
\* at start-up has been answered: the stack is not healthy, the config page
\* stays.
Init == InitApp /\ fx = NoFx /\ appStatus = "sawOther" /\ GatewayIdle

Alive == appState # "exited"

\* ------------------------------------------------------ renderer: runSetup

\* A runSetup that starts a run whether or not one is active.
runSetupUnguarded ==
    /\ cmdOutcome' = "started"
    /\ runningRef' = TRUE
    /\ error' = NoError
    /\ showRetry' = FALSE
    /\ showInstallDocker' = FALSE
    /\ steps' = [ResetSteps EXCEPT !["docker"] = "loading"]
    /\ listeners' = {"log"}
    /\ req' = Invoke("checkInstalled")
    /\ pc' = "checkInstalled"
    /\ attempt' = 0
    /\ nResolve' = 0
    /\ nStart' = 0
    /\ dockerChecked' = FALSE
    /\ progress' = 0
    /\ nInstall' = 0
    /\ nDepCheck' = 0
    /\ UNCHANGED portModal

\* A runSetup that leaves the steps of the run before as they are.
runSetupKeepsSteps ==
    IF runningRef
    THEN /\ cmdOutcome' = "returned"
         /\ UNCHANGED <<steps, pc, runningRef, error, showRetry, showInstallDocker,
                        portModal, attempt, listeners, req, nResolve, nStart,
                        dockerChecked, progress, nInstall, nDepCheck>>
    ELSE /\ cmdOutcome' = "started"
         /\ runningRef' = TRUE
         /\ error' = NoError
         /\ showRetry' = FALSE
         /\ showInstallDocker' = FALSE
         /\ steps' = [steps EXCEPT !["docker"] = "loading"]
         /\ listeners' = {"log"}
         /\ req' = Invoke("checkInstalled")
         /\ pc' = "checkInstalled"
         /\ attempt' = 0
         /\ nResolve' = 0
         /\ nStart' = 0
         /\ dockerChecked' = FALSE
         /\ UNCHANGED <<progress, nInstall, nDepCheck>>
         /\ UNCHANGED portModal

\* runSetup up to its first await (lines 58-86).  The guard returns without a
\* word; otherwise the run takes runningRef, clears the error box, resets the
\* five steps, drops the progress listeners of an earlier run, registers the
\* log listener and asks for the Docker check.
runSetup ==
    IF runningRef
    THEN /\ cmdOutcome' = "returned"
         /\ UNCHANGED <<steps, pc, runningRef, error, showRetry, showInstallDocker,
                        portModal, attempt, listeners, req, nResolve, nStart,
                        dockerChecked, progress, nInstall, nDepCheck>>
    ELSE /\ cmdOutcome' = "started"
         /\ runningRef' = TRUE
         /\ error' = NoError
         /\ showRetry' = FALSE
         /\ showInstallDocker' = FALSE
         /\ steps' = [ResetSteps EXCEPT !["docker"] = "loading"]
         /\ listeners' = {"log"}
         /\ req' = Invoke("checkInstalled")
         /\ pc' = "checkInstalled"
         /\ attempt' = 0
         /\ nResolve' = 0
         /\ nStart' = 0
         /\ dockerChecked' = FALSE
         /\ progress' = 0
         /\ nInstall' = 0
         /\ nDepCheck' = 0
         /\ UNCHANGED portModal

\* App.handleConfigDone: the config page hands over the credentials and
\* SetupPage is mounted.  React runs its mount effect once, or twice in a row
\* where it re-runs mount effects (StrictMode).
handleConfigDone ==
    /\ Alive
    /\ page = "config"
    /\ page' = "setup"
    /\ pendingEffects' \in {1, 2}
    /\ UNCHANGED <<steps, pc, runningRef, error, showRetry,
                   showInstallDocker, portModal, attempt, listeners>>
    /\ UNCHANGED <<ipcVars, mainVars, histVars, appStatus, gatewayVars>>

\* useEffect(() => { runSetup(); ... }, []): a run of the mount effect.
MountEffect ==
    /\ Alive
    /\ page = "setup"
    /\ pendingEffects > 0
    /\ pendingEffects' = pendingEffects - 1
    /\ runSetup
    /\ UNCHANGED <<page, chan, completions, teardownAttempts, fx, appStatus, gatewayVars>>
    /\ UNCHANGED mainVars

\* handleRetry: the Retry button, rendered while showRetry.
handleRetry ==
    /\ Alive
    /\ page = "setup"
    /\ showRetry
    /\ runSetup
    /\ UNCHANGED <<page, pendingEffects, chan, completions, teardownAttempts, fx, appStatus, gatewayVars>>
    /\ UNCHANGED mainVars

HeadIsReply(op) ==
    /\ pendingEffects = 0
    /\ chan # <<>> /\ Head(chan).t = "reply" /\ Head(chan).op = op

\* A failure path that forgets to mark its step.
FailLeavesStep(k, title, message, missing, leaked) ==
    /\ steps' = steps
    /\ error' = [title |-> title, message |-> message, missing |-> missing]
    /\ showRetry' = TRUE
    /\ runningRef' = FALSE
    /\ listeners' = leaked
    /\ pc' = "failed"
    /\ req' = NoReq

\* A failure path that forgets runningRef.current = false.
FailKeepsRunning(k, title, message, missing, leaked) ==
    /\ steps' = [steps EXCEPT ![k] = "error"]
    /\ error' = [title |-> title, message |-> message, missing |-> missing]
    /\ showRetry' = TRUE
    /\ runningRef' = runningRef
    /\ listeners' = leaked
    /\ pc' = "failed"
    /\ req' = NoReq

\* Every terminal failure of runSetup: the step shows the error, the error box
\* is set, Retry is offered, runningRef is released and logCleanup() is called.
\* The listeners named in `leaked` are the ones the path does not remove.
Fail(k, title, message, missing, leaked) ==
    /\ steps' = [steps EXCEPT ![k] = "error"]
    /\ error' = [title |-> title, message |-> message, missing |-> missing]
    /\ showRetry' = TRUE
    /\ runningRef' = FALSE
    /\ listeners' = leaked
    /\ pc' = "failed"
    /\ req' = NoReq

\* resolvePortConflicts up to its first await (lines 146-149).
BeginResolve ==
    /\ steps' = [steps EXCEPT !["containers"] = "loading"]
    /\ nResolve' = nResolve + 1
    /\ req' = Invoke("checkPorts")
    /\ pc' = "checkPorts"

\* Lines 192-194: the ports are fine, call start.
BeginStart ==
    /\ steps' = [steps EXCEPT !["containers"] = "loading"]
    /\ nStart' = nStart + 1
    /\ req' = Invoke("start")
    /\ pc' = "start"

\* A Docker check that goes on whatever checkInstalled answered.
OnCheckInstalledGoesOn ==
    /\ Alive /\ pc = "checkInstalled" /\ HeadIsReply("checkInstalled")
    /\ chan' = Tail(chan)
    /\ req' = Invoke("checkRunning")
    /\ pc' = "checkRunning"
    /\ UNCHANGED <<steps, error, showRetry, showInstallDocker, runningRef, listeners>>
    /\ UNCHANGED <<page, pendingEffects, portModal, attempt>>
    /\ UNCHANGED <<mainVars, histVars, appStatus, gatewayVars>>

\* Lines 86-96: the reply of checkInstalled.
OnCheckInstalled ==
    /\ Alive /\ pc = "checkInstalled" /\ HeadIsReply("checkInstalled")
    /\ chan' = Tail(chan)
    /\ IF Head(chan).val
       THEN /\ req' = Invoke("checkRunning")
            /\ pc' = "checkRunning"
            /\ UNCHANGED <<steps, error, showRetry, showInstallDocker, runningRef, listeners>>
       ELSE /\ Fail("docker", "Docker Required", "Install Docker Desktop to continue.", {}, {})
            /\ showInstallDocker' = TRUE
    /\ UNCHANGED <<page, pendingEffects, portModal, attempt>>
    /\ UNCHANGED <<mainVars, histVars, appStatus, gatewayVars>>

\* A reply of checkRunning after which the Docker step is not marked done.
OnCheckRunningKeepsLoading ==
    /\ Alive /\ pc = "checkRunning" /\ HeadIsReply("checkRunning")
    /\ chan' = Tail(chan)
    /\ IF Head(chan).val
       THEN /\ steps' = [steps EXCEPT !["images"] = "loading"]
            /\ listeners' = listeners \cup {"pull"}
            /\ req' = Invoke("pullImages")
            /\ pc' = "pullImages"
            /\ dockerChecked' = TRUE
            /\ progress' = 0
            /\ UNCHANGED <<error, showRetry, runningRef>>
       ELSE /\ Fail("docker", "Docker Not Running", "Start Docker Desktop and retry.", {}, {})
            /\ UNCHANGED <<dockerChecked, progress>>
    /\ UNCHANGED <<page, pendingEffects, showInstallDocker, portModal, attempt>>
    /\ UNCHANGED <<nResolve, nStart, completions, cmdOutcome, teardownAttempts, fx, nInstall, nDepCheck, appStatus, gatewayVars>>
    /\ UNCHANGED mainVars

\* Lines 99-125: the reply of checkRunning; on success the pull is requested
\* with the pull-progress listener registered.
OnCheckRunning ==
    /\ Alive /\ pc = "checkRunning" /\ HeadIsReply("checkRunning")
    /\ chan' = Tail(chan)
    /\ IF Head(chan).val
       THEN /\ steps' = [steps EXCEPT !["docker"] = "success", !["images"] = "loading"]
            /\ listeners' = listeners \cup {"pull"}
            /\ req' = Invoke("pullImages")
            /\ pc' = "pullImages"
            /\ dockerChecked' = TRUE
            /\ progress' = 0
            /\ UNCHANGED <<error, showRetry, runningRef>>
       ELSE /\ Fail("docker", "Docker Not Running", "Start Docker Desktop and retry.", {}, {})
            /\ UNCHANGED <<dockerChecked, progress>>
    /\ UNCHANGED <<page, pendingEffects, showInstallDocker, portModal, attempt>>
    /\ UNCHANGED <<nResolve, nStart, completions, cmdOutcome, teardownAttempts, fx, nInstall, nDepCheck, appStatus, gatewayVars>>
    /\ UNCHANGED mainVars

\* The listeners of lines 118-125, 242-244 and 278-280, called for an event of
\* their channel: each sets its step to 'loading'.  An event of a channel
\* nobody listens on is dropped.
ListenerStep(ch) ==
    CASE ch = "pull" -> "images"
      [] ch = "install" -> "deps"
      [] ch = "status" -> "ready"

\* A percentage computed with the larger of the two instead of the smaller.
pullProgressMax(p) == IF p + 2 > 95 THEN p + 2 ELSE 95

\* Lines 117-119: pullProgress = Math.min(pullProgress + 2, 95).
pullProgress(p) == IF p + 2 < 95 THEN p + 2 ELSE 95

\* Listeners that are never removed: every event reaches its step.
OnEventNeverRemoved ==
    /\ Alive /\ pendingEffects = 0 /\ chan # <<>> /\ Head(chan).t = "ev"
    /\ chan' = Tail(chan)
    /\ steps' = [steps EXCEPT ![ListenerStep(Head(chan).op)] = "loading"]
    /\ UNCHANGED <<page, pendingEffects, pc, runningRef, error, showRetry,
                   showInstallDocker, portModal, attempt, listeners, req>>
    /\ progress' = IF Head(chan).op = "pull" THEN pullProgress(progress) ELSE progress
    /\ UNCHANGED <<mainVars, nResolve, nStart, dockerChecked, completions, cmdOutcome, teardownAttempts, fx, nInstall, nDepCheck, appStatus, gatewayVars>>

\* The renderer takes an event off the channel and calls its listener.
OnEvent ==
    /\ Alive /\ pendingEffects = 0 /\ chan # <<>> /\ Head(chan).t = "ev"
    /\ chan' = Tail(chan)
    /\ steps' = IF Head(chan).op \in listeners
                THEN [steps EXCEPT ![ListenerStep(Head(chan).op)] = "loading"]
                ELSE steps
    /\ UNCHANGED <<page, pendingEffects, pc, runningRef, error, showRetry,
                   showInstallDocker, portModal, attempt, listeners, req>>
    /\ progress' = IF Head(chan).op = "pull" /\ "pull" \in listeners
                   THEN pullProgress(progress) ELSE progress
    /\ UNCHANGED <<mainVars, nResolve, nStart, dockerChecked, completions, cmdOutcome, teardownAttempts, fx, nInstall, nDepCheck, appStatus, gatewayVars>>

\* Lines 127-149: the pull settled.  pullCleanup() runs on both paths.
OnPullImages ==
    /\ Alive /\ pc = "pullImages" /\ HeadIsReply("pullImages")
    /\ chan' = Tail(chan)
    /\ IF Head(chan).ok
       THEN /\ listeners' = listeners \ {"pull"}
            /\ steps' = [steps EXCEPT !["images"] = "success", !["containers"] = "loading"]
            /\ nResolve' = nResolve + 1
            /\ progress' = 100
            /\ req' = Invoke("checkPorts")
            /\ pc' = "checkPorts"
            /\ UNCHANGED <<error, showRetry, runningRef>>
       ELSE /\ Fail("images", "Pull Failed", Head(chan).val, {}, {})
            /\ UNCHANGED <<nResolve, progress>>
    /\ UNCHANGED <<page, pendingEffects, showInstallDocker, portModal, attempt>>
    /\ UNCHANGED <<nStart, dockerChecked, completions, cmdOutcome, teardownAttempts, fx, nInstall, nDepCheck, appStatus, gatewayVars>>
    /\ UNCHANGED mainVars

\* A port check whose answer is not looked at: start is invoked at once.
OnCheckPortsNoPause ==
    /\ Alive /\ pc = "checkPorts" /\ HeadIsReply("checkPorts")
    /\ chan' = Tail(chan)
    /\ BeginStart
    /\ UNCHANGED portModal
    /\ UNCHANGED <<page, pendingEffects, runningRef, error, showRetry,
                   showInstallDocker, attempt, listeners>>
    /\ UNCHANGED <<nResolve, dockerChecked, completions, cmdOutcome, teardownAttempts, fx,
                   progress, nInstall, nDepCheck, appStatus, gatewayVars>>
    /\ UNCHANGED mainVars

\* Lines 149-160: the port check answered; with conflicts the modal opens and
\* the run waits for the user.
OnCheckPorts ==
    /\ Alive /\ pc = "checkPorts" /\ HeadIsReply("checkPorts")
    /\ chan' = Tail(chan)
    /\ IF Head(chan).val.available
       THEN /\ BeginStart
            /\ UNCHANGED portModal
       ELSE /\ portModal' = [open |-> TRUE, conflicts |-> Head(chan).val.conflicts]
            /\ pc' = "portModal"
            /\ req' = NoReq
            /\ UNCHANGED <<steps, nStart>>
    /\ UNCHANGED <<page, pendingEffects, runningRef, error, showRetry,
                   showInstallDocker, attempt, listeners>>
    /\ UNCHANGED <<nResolve, dockerChecked, completions, cmdOutcome, teardownAttempts, fx, progress, nInstall, nDepCheck, appStatus, gatewayVars>>
    /\ UNCHANGED mainVars

\* Lines 161-170 with 'confirm': free the ports.
ModalConfirm ==
    /\ Alive /\ pc = "portModal" /\ portModal.open
    /\ portModal' = ClosedModal
    /\ steps' = [steps EXCEPT !["containers"] = "loading"]
    /\ req' = [op |-> "killPortProcesses", arg |-> portModal.conflicts]
    /\ pc' = "killPortProcesses"
    /\ UNCHANGED <<page, pendingEffects, runningRef, error, showRetry,
                   showInstallDocker, attempt, listeners, chan>>
    /\ UNCHANGED <<mainVars, histVars, appStatus, gatewayVars>>

\* A cancel that marks the failure and invokes start all the same.
ModalCancelStartsAnyway ==
    /\ Alive /\ pc = "portModal" /\ portModal.open
    /\ portModal' = ClosedModal
    /\ steps' = [steps EXCEPT !["containers"] = "error"]
    /\ error' = [title |-> "Port Conflict",
                 message |-> "Free the required ports manually and retry.", missing |-> {}]
    /\ showRetry' = TRUE
    /\ runningRef' = FALSE
    /\ listeners' = {}
    /\ pc' = "failed"
    /\ req' = Invoke("start")
    /\ UNCHANGED <<page, pendingEffects, showInstallDocker, attempt, chan>>
    /\ UNCHANGED <<mainVars, histVars, appStatus, gatewayVars>>

\* Lines 161-166 and 183-190 with 'cancel': the run fails with Port Conflict.
ModalCancel ==
    /\ Alive /\ pc = "portModal" /\ portModal.open
    /\ portModal' = ClosedModal
    /\ Fail("containers", "Port Conflict", "Free the required ports manually and retry.", {}, {})
    /\ UNCHANGED <<page, pendingEffects, showInstallDocker, attempt, chan>>
    /\ UNCHANGED <<mainVars, histVars, appStatus, gatewayVars>>

\* A start loop that goes round once more than MaxAttempts.
StartCatchOneMore(message) ==
    IF isPortError(message) /\ attempt < MaxAttempts
    THEN /\ attempt' = attempt + 1
         /\ BeginResolve
         /\ UNCHANGED <<error, showRetry, runningRef, listeners>>
    ELSE /\ Fail("containers", "Start Failed", message, {}, {})
         /\ UNCHANGED <<attempt, nResolve>>

\* The catch of the start loop (lines 199-211) and the loop's `continue`:
\* a port error before the last attempt goes round again, anything else ends
\* the run.  Lines 214-221 are what follows a loop that ran out.
StartCatch(message) ==
    IF isPortError(message) /\ attempt < 2
    THEN /\ attempt' = attempt + 1
         /\ IF attempt + 1 < MaxAttempts
            THEN /\ BeginResolve
                 /\ UNCHANGED <<error, showRetry, runningRef, listeners>>
            ELSE /\ Fail("containers", "Start Failed",
                         "Could not start containers after multiple attempts.", {}, {})
                 /\ UNCHANGED nResolve
    ELSE /\ Fail("containers", "Start Failed", message, {}, {})
         /\ UNCHANGED <<attempt, nResolve>>

\* Lines 170-172 and 192-194: killPortProcesses settled.  Its rejection is
\* thrown inside the try of the start loop.
OnKillPortProcesses ==
    /\ Alive /\ pc = "killPortProcesses" /\ HeadIsReply("killPortProcesses")
    /\ chan' = Tail(chan)
    /\ IF Head(chan).ok
       THEN /\ BeginStart
            /\ UNCHANGED <<error, showRetry, runningRef, listeners, attempt, nResolve>>
       ELSE /\ StartCatch(Head(chan).val)
            /\ UNCHANGED nStart
    /\ UNCHANGED <<page, pendingEffects, showInstallDocker, portModal>>
    /\ UNCHANGED <<dockerChecked, completions, cmdOutcome, teardownAttempts, fx, progress, nInstall, nDepCheck, appStatus, gatewayVars>>
    /\ UNCHANGED mainVars

\* Lines 194-198 and 223-228: start settled; on success the dependency step
\* begins with its 2 s delay.
OnStart ==
    /\ Alive /\ pc = "start" /\ HeadIsReply("start")
    /\ chan' = Tail(chan)
    /\ IF Head(chan).ok
       THEN /\ steps' = [steps EXCEPT !["containers"] = "success", !["deps"] = "loading"]
            /\ pc' = "depsDelay"
            /\ req' = NoReq
            /\ UNCHANGED <<error, showRetry, runningRef, listeners, attempt, nResolve>>
       ELSE StartCatch(Head(chan).val)
    /\ UNCHANGED <<page, pendingEffects, showInstallDocker, portModal>>
    /\ UNCHANGED <<nStart, dockerChecked, completions, cmdOutcome, teardownAttempts, fx, progress, nInstall, nDepCheck, appStatus, gatewayVars>>
    /\ UNCHANGED mainVars

\* Lines 228-229: the 2 s delay is over, probe the dependencies.
DepsDelayElapsed ==
    /\ Alive /\ pc = "depsDelay"
    /\ req' = Invoke("checkBackendDeps")
    /\ pc' = "checkBackendDeps"
    /\ UNCHANGED <<page, pendingEffects, steps, runningRef, error, showRetry,
                   showInstallDocker, portModal, attempt, listeners, chan>>
    /\ nDepCheck' = nDepCheck + 1
    /\ UNCHANGED <<mainVars, nResolve, nStart, dockerChecked, completions, cmdOutcome, teardownAttempts, fx, progress, nInstall, appStatus, gatewayVars>>

\* A health step that begins without the dependency step marked done.
BeginHealthLeavesDeps ==
    /\ steps' = [steps EXCEPT !["ready"] = "loading"]
    /\ listeners' = listeners \cup {"status"}
    /\ req' = Invoke("waitHealthy")
    /\ pc' = "waitHealthy"

\* Lines 263-264 and 274-283: the dependency step succeeded, the health wait
\* is requested with the status listener registered.
BeginHealth ==
    /\ steps' = [steps EXCEPT !["deps"] = "success", !["ready"] = "loading"]
    /\ listeners' = listeners \cup {"status"}
    /\ req' = Invoke("waitHealthy")
    /\ pc' = "waitHealthy"

\* A dependency step that installs again when the re-check finds tools missing.
OnVerifyDepsInstallsAgain ==
    /\ Alive /\ pc = "verifyDeps" /\ HeadIsReply("checkBackendDeps")
    /\ chan' = Tail(chan)
    /\ IF Head(chan).val = {}
       THEN /\ BeginHealth
            /\ UNCHANGED nInstall
       ELSE /\ steps' = [steps EXCEPT !["deps"] = "loading"]
            /\ listeners' = listeners \cup {"install"}
            /\ req' = Invoke("installBackendDeps")
            /\ pc' = "installBackendDeps"
            /\ nInstall' = nInstall + 1
    /\ UNCHANGED <<page, pendingEffects, runningRef, error, showRetry,
                   showInstallDocker, portModal, attempt>>
    /\ UNCHANGED <<mainVars, nResolve, nStart, dockerChecked, completions, cmdOutcome,
                   teardownAttempts, fx, progress, nDepCheck, appStatus, gatewayVars>>

\* Lines 229-246: the first probe answered (val: the tools it did not find).
\* With tools missing the install is requested with its listener registered.
OnCheckBackendDeps ==
    /\ Alive /\ pc = "checkBackendDeps" /\ HeadIsReply("checkBackendDeps")
    /\ chan' = Tail(chan)
    /\ IF Head(chan).val = {}
       THEN /\ BeginHealth
            /\ UNCHANGED nInstall
       ELSE /\ steps' = [steps EXCEPT !["deps"] = "loading"]
            /\ listeners' = listeners \cup {"install"}
            /\ req' = Invoke("installBackendDeps")
            /\ pc' = "installBackendDeps"
            /\ nInstall' = nInstall + 1
    /\ UNCHANGED <<page, pendingEffects, runningRef, error, showRetry,
                   showInstallDocker, portModal, attempt>>
    /\ UNCHANGED <<mainVars, nResolve, nStart, dockerChecked, completions, cmdOutcome, teardownAttempts, fx, progress, nDepCheck, appStatus, gatewayVars>>

\* Lines 246-250 and 265-272: the install settled.  installCleanup() is only
\* reached when it resolved; the catch leaves the install listener in place.
OnInstallBackendDeps ==
    /\ Alive /\ pc = "installBackendDeps" /\ HeadIsReply("installBackendDeps")
    /\ chan' = Tail(chan)
    /\ IF Head(chan).ok
       THEN /\ listeners' = listeners \ {"install"}
            /\ steps' = [steps EXCEPT !["deps"] = "loading"]
            /\ pc' = "verifyDelay"
            /\ req' = NoReq
            /\ UNCHANGED <<error, showRetry, runningRef>>
       ELSE Fail("deps", "Dependencies Failed", Head(chan).val, {},
                 listeners \ {"log"})
    /\ UNCHANGED <<page, pendingEffects, showInstallDocker, portModal, attempt>>
    /\ UNCHANGED <<mainVars, histVars, appStatus, gatewayVars>>

\* Lines 250-252: the 1 s delay is over, probe again.
VerifyDelayElapsed ==
    /\ Alive /\ pc = "verifyDelay"
    /\ req' = Invoke("checkBackendDeps")
    /\ pc' = "verifyDeps"
    /\ UNCHANGED <<page, pendingEffects, steps, runningRef, error, showRetry,
                   showInstallDocker, portModal, attempt, listeners, chan>>
    /\ nDepCheck' = nDepCheck + 1
    /\ UNCHANGED <<mainVars, nResolve, nStart, dockerChecked, completions, cmdOutcome, teardownAttempts, fx, progress, nInstall, appStatus, gatewayVars>>

\* Lines 252-272: the re-check answered; tools still missing end the run.
OnVerifyDeps ==
    /\ Alive /\ pc = "verifyDeps" /\ HeadIsReply("checkBackendDeps")
    /\ chan' = Tail(chan)
    /\ IF Head(chan).val = {}
       THEN /\ BeginHealth
            /\ UNCHANGED <<error, showRetry, runningRef>>
       ELSE Fail("deps", "Dependencies Failed", "Still missing", Head(chan).val,
                 listeners \ {"log"})
    /\ UNCHANGED <<page, pendingEffects, showInstallDocker, portModal, attempt>>
    /\ UNCHANGED <<mainVars, histVars, appStatus, gatewayVars>>

\* A health step that takes any answer of the wait for a healthy stack.
OnWaitHealthyAnyAnswer ==
    /\ Alive /\ pc = "waitHealthy" /\ HeadIsReply("waitHealthy")
    /\ chan' = Tail(chan)
    /\ steps' = [steps EXCEPT !["ready"] = "success"]
    /\ runningRef' = FALSE
    /\ listeners' = (listeners \ {"status"}) \ {"log"}
    /\ pc' = "doneDelay"
    /\ req' = NoReq
    /\ UNCHANGED <<error, showRetry>>
    /\ UNCHANGED <<page, pendingEffects, showInstallDocker, portModal, attempt>>
    /\ UNCHANGED <<mainVars, histVars, appStatus, gatewayVars>>

\* Lines 283-309: the health wait settled.  statusCleanup() runs on every
\* path; a healthy stack ends the run and starts the 600 ms before onComplete.
OnWaitHealthy ==
    /\ Alive /\ pc = "waitHealthy" /\ HeadIsReply("waitHealthy")
    /\ chan' = Tail(chan)
    /\ IF Head(chan).val
       THEN /\ steps' = [steps EXCEPT !["ready"] = "success"]
            /\ runningRef' = FALSE
            /\ listeners' = (listeners \ {"status"}) \ {"log"}
            /\ pc' = "doneDelay"
            /\ req' = NoReq
            /\ UNCHANGED <<error, showRetry>>
       ELSE Fail("ready", "Timeout", "Services did not become healthy in time.", {},
                 (listeners \ {"status"}) \ {"log"})
    /\ UNCHANGED <<page, pendingEffects, showInstallDocker, portModal, attempt>>
    /\ UNCHANGED <<mainVars, histVars, appStatus, gatewayVars>>

\* A completion timer that fires again and again (setInterval).
DoneDelayElapsedRepeats ==
    /\ Alive /\ pc \in {"doneDelay", "done"}
    /\ completions' = completions + 1
    /\ page' = "ready"
    /\ pc' = "done"
    /\ listeners' = listeners \ {"pull", "status", "install"}
    /\ UNCHANGED <<pendingEffects, steps, runningRef, error, showRetry,
                   showInstallDocker, portModal, attempt>>
    /\ UNCHANGED <<nResolve, nStart, dockerChecked, cmdOutcome, teardownAttempts, fx, progress, nInstall, nDepCheck, appStatus, gatewayVars>>
    /\ UNCHANGED <<ipcVars, mainVars>>

\* Lines 300-301 and App.handleSetupDone: onComplete() shows the ready page;
\* SetupPage unmounts and its effect cleanup removes the progress listeners.
DoneDelayElapsed ==
    /\ Alive /\ pc = "doneDelay"
    /\ completions' = completions + 1
    /\ page' = "ready"
    /\ pc' = "done"
    /\ listeners' = listeners \ {"pull", "status", "install"}
    /\ UNCHANGED <<pendingEffects, steps, runningRef, error, showRetry,
                   showInstallDocker, portModal, attempt>>
    /\ UNCHANGED <<nResolve, nStart, dockerChecked, cmdOutcome, teardownAttempts, fx, progress, nInstall, nDepCheck, appStatus, gatewayVars>>
    /\ UNCHANGED <<ipcVars, mainVars>>

\* ------------------------------------------------- gateway: pure functions

\* How a command run by execPromise can end: exit code 0, another exit code,
\* killed by the timeout of exec, or the binary is missing.
ExecOutcomes == {"exit0", "nonzero", "timeout", "enoent"}

\* An execPromise that takes a missing binary for success.
execResolvesUnlessMissing(outcome) == outcome \in {"exit0", "enoent"}

\* execPromise resolves only when exec reports no error.
execResolves(outcome) == outcome = "exit0"

isDockerInstalled(outcome) == execResolves(outcome)

isDockerRunning(outcome) == execResolves(outcome)

\* One line of `compose ps --format json`: a record with State and Health
\* ("" when the container has no health probe), or text JSON.parse rejects.
Garbage == [State |-> "?", Health |-> "?", parses |-> FALSE]

Container(state, health) == [State |-> state, Health |-> health, parses |-> TRUE]

\* What the status query gave: it failed, or these lines.
PsError == [ok |-> FALSE, lines |-> <<>>]

PsLines(lines) == [ok |-> TRUE, lines |-> lines]

\* A status that takes the health of the records without asking whether the
\* containers are up.
getDockerStatusHealthAlone(installedOutcome, runningOutcome, ps) ==
    IF ~isDockerInstalled(installedOutcome)
    THEN [installed |-> FALSE, running |-> FALSE, containersUp |-> FALSE,
          healthy |-> FALSE, error |-> FALSE]
    ELSE IF ~isDockerRunning(runningOutcome)
    THEN [installed |-> TRUE, running |-> FALSE, containersUp |-> FALSE,
          healthy |-> FALSE, error |-> FALSE]
    ELSE IF ~ps.ok
    THEN [installed |-> TRUE, running |-> TRUE, containersUp |-> FALSE,
          healthy |-> FALSE, error |-> TRUE]
    ELSE IF ps.lines = <<>>
    THEN [installed |-> TRUE, running |-> TRUE, containersUp |-> FALSE,
          healthy |-> FALSE, error |-> FALSE]
    ELSE LET containers == SelectSeq(ps.lines, LAMBDA c : c.parses)
             allUp == /\ Len(containers) >= 3
                      /\ \A i \in 1..Len(containers) : containers[i].State = "running"
             allHealthy == \A i \in 1..Len(containers) :
                               containers[i].Health \in {"", "healthy"}
         IN  [installed |-> TRUE, running |-> TRUE, containersUp |-> allUp,
              healthy |-> allHealthy, error |-> FALSE]

\* A status that is content with two containers.
getDockerStatusTwoSuffice(installedOutcome, runningOutcome, ps) ==
    IF ~isDockerInstalled(installedOutcome)
    THEN [installed |-> FALSE, running |-> FALSE, containersUp |-> FALSE,
          healthy |-> FALSE, error |-> FALSE]
    ELSE IF ~isDockerRunning(runningOutcome)
    THEN [installed |-> TRUE, running |-> FALSE, containersUp |-> FALSE,
          healthy |-> FALSE, error |-> FALSE]
    ELSE IF ~ps.ok
    THEN [installed |-> TRUE, running |-> TRUE, containersUp |-> FALSE,
          healthy |-> FALSE, error |-> TRUE]
    ELSE IF ps.lines = <<>>
    THEN [installed |-> TRUE, running |-> TRUE, containersUp |-> FALSE,
          healthy |-> FALSE, error |-> FALSE]
    ELSE LET containers == SelectSeq(ps.lines, LAMBDA c : c.parses)
             allUp == /\ Len(containers) >= 2
                      /\ \A i \in 1..Len(containers) : containers[i].State = "running"
             allHealthy == \A i \in 1..Len(containers) :
                               containers[i].Health \in {"", "healthy"}
         IN  [installed |-> TRUE, running |-> TRUE, containersUp |-> allUp,
              healthy |-> allUp /\ allHealthy, error |-> FALSE]

\* getDockerStatus, from how the version check, the daemon check and the
\* status query ended.
getDockerStatus(installedOutcome, runningOutcome, ps) ==
    IF ~isDockerInstalled(installedOutcome)
    THEN [installed |-> FALSE, running |-> FALSE, containersUp |-> FALSE,
          healthy |-> FALSE, error |-> FALSE]
    ELSE IF ~isDockerRunning(runningOutcome)
    THEN [installed |-> TRUE, running |-> FALSE, containersUp |-> FALSE,
          healthy |-> FALSE, error |-> FALSE]
    ELSE IF ~ps.ok
    THEN [installed |-> TRUE, running |-> TRUE, containersUp |-> FALSE,
          healthy |-> FALSE, error |-> TRUE]
    ELSE IF ps.lines = <<>>
    THEN [installed |-> TRUE, running |-> TRUE, containersUp |-> FALSE,
          healthy |-> FALSE, error |-> FALSE]
    ELSE LET containers == SelectSeq(ps.lines, LAMBDA c : c.parses)
             allUp == /\ Len(containers) >= 3
                      /\ \A i \in 1..Len(containers) : containers[i].State = "running"
             allHealthy == \A i \in 1..Len(containers) :
                               containers[i].Health \in {"", "healthy"}
         IN  [installed |-> TRUE, running |-> TRUE, containersUp |-> allUp,
              healthy |-> allUp /\ allHealthy, error |-> FALSE]

\* Status outputs the stack can give while it comes up.
PsSamples ==
    { PsError,
      PsLines(<<>>),
      PsLines(<<Container("running", "healthy"), Container("running", "")>>),
      PsLines(<<Container("running", "healthy"), Container("running", "starting"),
                Container("running", "")>>),
      PsLines(<<Container("running", "healthy"), Container("exited", ""),
                Container("running", "")>>),
      PsLines(<<Garbage, Container("running", "healthy"), Container("running", "")>>),
      PsLines(<<Container("running", "healthy"), Container("running", "healthy"),
                Container("running", "")>>),
      PsLines(<<Garbage, Container("running", "healthy"),
                Container("running", "healthy"), Container("running", "")>>) }

\* const REQUIRED_PORTS = [3000, 5433, 8000]
REQUIRED_PORTS == {3000, 5433, 8000}

\* checkRequiredPorts: `bound` are the ports isPortAvailable cannot bind.
checkRequiredPorts(bound) ==
    LET blockedPorts == REQUIRED_PORTS \cap bound
    IN  [available |-> blockedPorts = {}, blockedPorts |-> blockedPorts]

\* What `lsof -i :port -t` gave: it failed, or these pids.
LsofFail == [ok |-> FALSE, pids |-> {}]

LsofPids(pids) == [ok |-> TRUE, pids |-> pids]

\* getPortConflicts: lsof[p] is the lookup of port p, ps[pid] the name lookup
\* of pid ("fail" when it fails).  A port whose lsof fails gets a log line and
\* no entry.
getPortConflicts(bound, lsof, ps) ==
    LET portCheck == checkRequiredPorts(bound)
    IN  IF portCheck.available
        THEN [available |-> TRUE, conflicts |-> {}]
        ELSE [available |-> FALSE,
              conflicts |->
                  { [port |-> e[1], pid |-> e[2],
                     processName |-> IF ps[e[2]] = "fail" THEN "unknown" ELSE ps[e[2]]] :
                    e \in { x \in portCheck.blockedPorts \X DOMAIN ps :
                              lsof[x[1]].ok /\ x[2] \in lsof[x[1]].pids } }]

\* An email is a text over letters, '@', '.' and blanks with `more` letters
\* put before it; a password is its length, all validateCredentials reads of
\* it.  A field that is undefined has given = FALSE.
EmailChars == {"x", "@", ".", " "}

NoEmail == [given |-> FALSE, more |-> 0, text |-> <<>>]

NoPassword == [given |-> FALSE, len |-> 0]

RECURSIVE trimStart(_)
trimStart(t) == IF t # <<>> /\ Head(t) = " " THEN trimStart(Tail(t)) ELSE t

RECURSIVE trimEnd(_)
trimEnd(t) ==
    IF t # <<>> /\ t[Len(t)] = " " THEN trimEnd(SubSeq(t, 1, Len(t) - 1)) ELSE t

\* String(config.adminEmail).trim(): its text, with the letters put before.
trim(e) ==
    IF e.more > 0 THEN [e EXCEPT !.text = trimEnd(e.text)]
    ELSE [e EXCEPT !.text = trimEnd(trimStart(e.text))]

length(e) == e.more + Len(e.text)

\* /^[^\s@]+@[^\s@]+\.[^\s@]+$/.test(email)
matchesEmail(e) ==
    LET t == IF e.more > 0 THEN <<"x">> \o e.text ELSE e.text
        ats == {i \in 1..Len(t) : t[i] = "@"}
    IN  /\ \A i \in 1..Len(t) : t[i] # " "
        /\ Cardinality(ats) = 1
        /\ \E i \in ats : /\ i > 1
                           /\ \E j \in (i + 2)..(Len(t) - 1) : t[j] = "."

\* if (config?.adminEmail): an empty string is falsy, as undefined is.
truthy(len) == len > 0

MsgEmailTooLong == "Email address too long"
MsgPasswordTooLong == "Password too long"
MsgPasswordTooShort == "Password must be at least 8 characters"

\* validateCredentials(config): "" when it returns, else the error thrown.
validateCredentials(config) ==
    LET email == trim(config.adminEmail)
        emailError ==
            IF ~(config.adminEmail.given /\ truthy(length(config.adminEmail))) THEN ""
            ELSE IF length(email) > 254 THEN MsgEmailTooLong
            ELSE IF ~matchesEmail(email) THEN MsgInvalidCredentials
            ELSE ""
        passwordError ==
            IF ~(config.adminPassword.given /\ truthy(config.adminPassword.len)) THEN ""
            ELSE IF config.adminPassword.len > 128 THEN MsgPasswordTooLong
            ELSE IF config.adminPassword.len < 8 THEN MsgPasswordTooShort
            ELSE ""
    IN  IF emailError # "" THEN emailError ELSE passwordError

\* startContainers(config) up to its spawn: getComposePath() and
\* validateCredentials() throw before `compose up` is spawned.
startContainersSpawns(composeExists, config) ==
    composeExists /\ validateCredentials(config) = ""

\* What happens to a spawned `compose down`, in order: its timer fires
\* ("timeout"), the spawn fails ("error"), or it closes with an exit code.
DownEvents == {"timeout", "error", "zero", "nonzero", "null"}

\* A 'close' handler that takes a null exit code for a failure.
stopResolvesOnZeroOnly(code) == code = "zero"

\* down.on('close'): if (code === 0 || code === null) resolve()
stopResolvesOn(code) == code \in {"zero", "null"}

\* The promise of stopContainers after the events: the first resolve() or
\* reject() settles it, later ones change nothing.
RECURSIVE settleDown(_, _)
settleDown(promise, events) ==
    IF events = <<>> THEN promise
    ELSE LET e == Head(events)
             next == IF promise # "pending" THEN promise
                     ELSE IF e = "timeout" THEN MsgDownTimeout
                     ELSE IF e = "error" THEN MsgSpawnError
                     ELSE IF stopResolvesOn(e) THEN "resolved"
                     ELSE MsgDownFailed
         IN  settleDown(next, Tail(events))

\* stopContainers(): getComposePath() throws before the spawn; else the
\* promise is settled by what happens to `compose down`.
stopContainers(composeExists, events) ==
    IF ~composeExists THEN MsgComposeMissing
    ELSE settleDown("pending", events)

\* The stderr texts startContainers looks for.
StderrMarks == {"port is already allocated", "No such image", "Cannot connect"}

\* A classification that looks for the missing image before the port.
startErrorMsgImageFirst(stderrOutput) ==
    IF "No such image" \in stderrOutput THEN MsgNoImage
    ELSE IF "port is already allocated" \in stderrOutput THEN MsgPortConflict
    ELSE IF "Cannot connect" \in stderrOutput THEN MsgCannotConnect
    ELSE MsgUpFailed

\* up.on('close') with a non-zero code: the message by the first mark found.
startErrorMsg(stderrOutput) ==
    IF "port is already allocated" \in stderrOutput THEN MsgPortConflict
    ELSE IF "No such image" \in stderrOutput THEN MsgNoImage
    ELSE IF "Cannot connect" \in stderrOutput THEN MsgCannotConnect
    ELSE MsgUpFailed

\* The exit codes `compose up` is seen to close with; "null" is the code of a
\* subprocess ended by a signal.
ExitCodes == {"0", "1", "125", "null"}

\* code === 0, code === null, or another code.
codeClass(code) ==
    IF code = "0" THEN "zero" ELSE IF code = "null" THEN "null" ELSE "nonzero"

\* What happens to a spawned `compose up`: it closes with a code, its stderr
\* holding some of the texts; its timer fires; the spawn fails.
UpClose(code, stderrOutput) == [e |-> "close", code |-> code, stderrOutput |-> stderrOutput]

UpTimeout == [e |-> "timeout", code |-> "null", stderrOutput |-> {}]

UpError == [e |-> "error", code |-> "null", stderrOutput |-> {}]

\* The error of the 'close' handler of startContainers (lines 503-511):
\* `Docker compose up failed with code ${code}.` unless a text is found.
upCloseError(code, stderrOutput) ==
    IF startErrorMsg(stderrOutput) = MsgUpFailed
    THEN <<MsgUpFailed, code>>
    ELSE <<startErrorMsg(stderrOutput)>>

\* The promise of startContainers after the events: the first resolve() or
\* reject() settles it, later ones change nothing.
RECURSIVE settleUp(_, _)
settleUp(promise, events) ==
    IF events = <<>> THEN promise
    ELSE LET ev == Head(events)
             next == IF promise # <<"pending">> THEN promise
                     ELSE IF ev.e = "timeout" THEN <<MsgUpTimeout>>
                     ELSE IF ev.e = "error" THEN <<MsgSpawnError>>
                     ELSE IF codeClass(ev.code) = "zero" THEN <<"resolved">>
                     ELSE upCloseError(ev.code, ev.stderrOutput)
         IN  settleUp(next, Tail(events))

\* startContainers(config) from its spawn on.
startContainers(events) == settleUp(<<"pending">>, events)

\* ------------------------------------------- main process: plain handlers

\* Process ids a lookup may print.
Pids == {101}

EventsInChan == Cardinality({i \in 1..Len(chan) : chan[i].t = "ev"})

\* What a handler that touches nothing but the reply leaves alone.
AnswerOnly(op, ok, val) ==
    /\ chan' = Append(chan, Reply(op, ok, val))
    /\ req' = NoReq
    /\ UNCHANGED <<rendererVars, mainVars, histVars, appStatus, gatewayVars>>

\* ipcMain.handle('docker:check-installed', () => isDockerInstalled())
HandleCheckInstalled ==
    /\ Alive /\ req.op = "checkInstalled"
    /\ \E outcome \in ExecOutcomes :
           AnswerOnly("checkInstalled", TRUE, isDockerInstalled(outcome))

\* ipcMain.handle('docker:check-running', () => isDockerRunning())
HandleCheckRunning ==
    /\ Alive /\ req.op = "checkRunning"
    /\ \E outcome \in ExecOutcomes :
           AnswerOnly("checkRunning", TRUE, isDockerRunning(outcome))

\* ipcMain.handle('docker:check-ports', () => getPortConflicts()).  The
\* conflicts travel on by their ports, the one field runSetup reads.
HandleCheckPorts ==
    /\ Alive /\ req.op = "checkPorts"
    /\ \E bound \in SUBSET REQUIRED_PORTS,
          lsof \in [REQUIRED_PORTS -> {LsofFail, LsofPids(Pids)}],
          ps \in [Pids -> {"fail", "node"}] :
           LET r == getPortConflicts(bound, lsof, ps)
           IN  AnswerOnly("checkPorts", TRUE,
                          [available |-> r.available,
                           conflicts |-> {c.port : c \in r.conflicts}])

\* A killPortProcesses that does not look at the ports again.
reprobeSkipped(ports, still) == TRUE

\* killPortProcesses(ports): after the signals and the 1.5 s wait every port
\* is probed again; `still` are the ones found bound.
killPortProcessesOk(ports, still) == ports \cap still = {}

\* killPortProcesses(ports) as a whole: lsof[p] is the lookup of port p (a
\* lookup that fails is taken for a free port), every pid found is sent
\* SIGTERM, and after the 1.5 s wait the ports are probed in order; `still`
\* are the ones bound then, whoever binds them.  The error names the first.
killPortProcesses(ports, lsof, still) ==
    LET signals == {[pid |-> x[2], signal |-> "SIGTERM"] :
                       x \in {y \in ports \X Pids :
                                 lsof[y[1]].ok /\ y[2] \in lsof[y[1]].pids}}
        bound == ports \cap still
    IN  IF killPortProcessesOk(ports, still)
        THEN [ok |-> TRUE, message |-> "", port |-> 0, signals |-> signals]
        ELSE [ok |-> FALSE, message |-> MsgPortStillInUse,
              port |-> CHOOSE p \in bound : \A q \in bound : p <= q,
              signals |-> signals]

\* ipcMain.handle('docker:kill-port-processes', ...)
HandleKillPortProcesses ==
    /\ Alive /\ req.op = "killPortProcesses"
    /\ \E still \in SUBSET REQUIRED_PORTS :
           IF killPortProcessesOk(req.arg, still)
           THEN AnswerOnly("killPortProcesses", TRUE, "")
           ELSE AnswerOnly("killPortProcesses", FALSE, MsgPortStillInUse)

\* A probe whose failure is thrown on instead of caught.
checkCommandThrows(outcome) == IF execResolves(outcome) THEN "true" ELSE "rejected"

\* checkCommand (lines 602-609): how its promise settles; the catch turns
\* every failure of execPromise into false.
checkCommand(outcome) == IF execResolves(outcome) THEN "true" ELSE "false"

\* The four probes just started by Promise.all (lines 611-616): none has
\* settled, the function has not returned.
ProbesStarted == [settled |-> {}, installed |-> {}, state |-> "joining", result |-> {}]

\* checkBackendDependencies: `found` are the tools whose `which` exits 0; the
\* reply is kept as the tools not found (allInstalled: none).
checkBackendDependencies(found) == Tools \ found

\* ipcMain.handle('docker:check-backend-deps', () => checkBackendDependencies())
HandleCheckBackendDeps ==
    /\ Alive /\ req.op = "checkBackendDeps"
    /\ \E found \in SUBSET Tools :
           AnswerOnly("checkBackendDeps", TRUE, checkBackendDependencies(found))

\* ------------------------------------------- main process: waitForHealthy

\* ipcMain.handle('docker:wait-healthy', ...): waitForHealthy takes startTime.
HandleWaitHealthy ==
    /\ Alive /\ req.op = "waitHealthy" /\ hstate["ipc"] = "idle"
    /\ req' = NoReq
    /\ hstate' = [hstate EXCEPT !["ipc"] = "health"]
    /\ hElapsed' = 0
    /\ hSawHealthy' = FALSE
    /\ UNCHANGED <<dockerOperationInProgress, isQuitting, appState, zombies, chan>>
    /\ UNCHANGED <<rendererVars, histVars, appStatus, gatewayVars>>

\* A waitForHealthy that takes containers that are up for healthy ones.
healthyReturnsWhenUp(status) == status.containersUp

\* if (status.healthy) { ...; return true; }  (line 574)
healthyReturns(status) == status.healthy

\* One round of the loop of waitForHealthy (lines 571-588): the window is
\* still open, the status is queried, its label is sent, and either the call
\* returns true or it sleeps; the clock has moved on by then.
HealthPoll ==
    /\ Alive /\ hstate["ipc"] = "health" /\ hElapsed < HealthTicks
    /\ \E io \in ExecOutcomes, ro \in ExecOutcomes, ps \in PsSamples :
           LET status == getDockerStatus(io, ro, ps)
           IN  /\ hSawHealthy' = (hSawHealthy \/ status.healthy)
               /\ IF healthyReturns(status)
                  THEN /\ chan' = Append(Append(chan, Event("status")),
                                         Reply("waitHealthy", TRUE, TRUE))
                       /\ hstate' = [hstate EXCEPT !["ipc"] = "idle"]
                       /\ UNCHANGED hElapsed
                  ELSE /\ chan' = Append(chan, Event("status"))
                       /\ \E t \in (hElapsed + 1)..HealthTicks : hElapsed' = t
                       /\ UNCHANGED hstate
    /\ UNCHANGED <<dockerOperationInProgress, isQuitting, appState, zombies, req>>
    /\ UNCHANGED <<rendererVars, histVars, appStatus, gatewayVars>>

\* The loop condition fails: the window is over, waitForHealthy returns false.
HealthExpire ==
    /\ Alive /\ hstate["ipc"] = "health" /\ hElapsed >= HealthTicks
    /\ chan' = Append(chan, Reply("waitHealthy", TRUE, FALSE))
    /\ hstate' = [hstate EXCEPT !["ipc"] = "idle"]
    /\ UNCHANGED <<dockerOperationInProgress, isQuitting, appState, zombies,
                   hElapsed, hSawHealthy, req>>
    /\ UNCHANGED <<rendererVars, histVars, appStatus, gatewayVars>>

\* ---------------------------------- main process: guarded operations

\* The invoke a subprocess of the renderer's handler belongs to.
ReqOf(kind) ==
    CASE kind = "pull" -> "pullImages"
      [] kind = "up" -> "start"
      [] kind \in {"download", "install", "symlink"} -> "installBackendDeps"

\* The handlers that take the flag: the invokes and the two tray items.
Handlers == Owners \ {"quit"}

\* A handler whose `finally` is a plain last statement: a rejection skips it.
SettleLeavesFlagOnError(o, ok, val) ==
    /\ hstate' = [hstate EXCEPT ![o] = "idle"]
    /\ dockerOperationInProgress' = IF ok THEN FALSE ELSE dockerOperationInProgress
    /\ chan' = IF o = "ipc" THEN Append(chan, Reply(ReqOf(hstate[o]), ok, val))
               ELSE chan

\* A handler is over: `finally` releases the flag, and an invoke is answered.
Settle(o, ok, val) ==
    /\ hstate' = [hstate EXCEPT ![o] = "idle"]
    /\ dockerOperationInProgress' = FALSE
    /\ chan' = IF o = "ipc" THEN Append(chan, Reply(ReqOf(hstate[o]), ok, val))
               ELSE chan

\* Handlers without the guard.
neverRejects(flag) == FALSE

\* if (dockerOperationInProgress) throw ...  (lines 207, 219, 231, 257)
rejectsWhenBusy(flag) == flag

\* ipcMain.handle('docker:pull-images', ...): refused while the flag is set;
\* else the flag is taken and pullImages spawns `compose pull`, unless
\* getComposePath throws and `finally` gives the flag back at once.
IpcPullImages ==
    /\ Alive /\ req.op = "pullImages"
    /\ req' = NoReq
    /\ IF rejectsWhenBusy(dockerOperationInProgress)
       THEN /\ chan' = Append(chan, Reply("pullImages", FALSE, MsgInProgress))
            /\ UNCHANGED <<dockerOperationInProgress, hstate>>
       ELSE \/ /\ dockerOperationInProgress' = TRUE
               /\ hstate' = [hstate EXCEPT !["ipc"] = "pull"]
               /\ UNCHANGED chan
            \/ /\ chan' = Append(chan, Reply("pullImages", FALSE, MsgComposeMissing))
               /\ UNCHANGED <<dockerOperationInProgress, hstate>>
    /\ UNCHANGED <<isQuitting, appState, zombies, hElapsed, hSawHealthy>>
    /\ UNCHANGED <<rendererVars, histVars, appStatus, gatewayVars>>

\* ipcMain.handle('docker:start', ...): as above; startContainers also throws
\* before it spawns when validateCredentials rejects the credentials.
IpcStart ==
    /\ Alive /\ req.op = "start"
    /\ req' = NoReq
    /\ IF rejectsWhenBusy(dockerOperationInProgress)
       THEN /\ chan' = Append(chan, Reply("start", FALSE, MsgInProgress))
            /\ UNCHANGED <<dockerOperationInProgress, hstate>>
       ELSE \/ /\ dockerOperationInProgress' = TRUE
               /\ hstate' = [hstate EXCEPT !["ipc"] = "up"]
               /\ UNCHANGED chan
            \/ /\ \E m \in {MsgComposeMissing, MsgInvalidCredentials} :
                      chan' = Append(chan, Reply("start", FALSE, m))
               /\ UNCHANGED <<dockerOperationInProgress, hstate>>
    /\ UNCHANGED <<isQuitting, appState, zombies, hElapsed, hSawHealthy>>
    /\ UNCHANGED <<rendererVars, histVars, appStatus, gatewayVars>>

\* ipcMain.handle('docker:install-backend-deps', ...): installBackendDependencies
\* reports 'Downloading dependency installer...' and runs the download.
IpcInstallBackendDeps ==
    /\ Alive /\ req.op = "installBackendDeps"
    /\ req' = NoReq
    /\ IF rejectsWhenBusy(dockerOperationInProgress)
       THEN /\ chan' = Append(chan, Reply("installBackendDeps", FALSE, MsgInProgress))
            /\ UNCHANGED <<dockerOperationInProgress, hstate>>
       ELSE /\ dockerOperationInProgress' = TRUE
            /\ hstate' = [hstate EXCEPT !["ipc"] = "download"]
            /\ chan' = Append(chan, Event("install"))
    /\ UNCHANGED <<isQuitting, appState, zombies, hElapsed, hSawHealthy>>
    /\ UNCHANGED <<rendererVars, histVars, appStatus, gatewayVars>>

\* Tray "Restart Services": refused with a dialog while the flag is set; else
\* the flag is taken and stopContainers spawns `compose down`.
TrayRestart ==
    /\ Alive /\ hstate["trayRestart"] = "idle"
    /\ IF rejectsWhenBusy(dockerOperationInProgress)
       THEN UNCHANGED <<dockerOperationInProgress, hstate>>
       ELSE /\ dockerOperationInProgress' = TRUE
            /\ hstate' = [hstate EXCEPT !["trayRestart"] = "down"]
    /\ UNCHANGED <<isQuitting, appState, zombies, hElapsed, hSawHealthy>>
    /\ UNCHANGED <<rendererVars, ipcVars, histVars, appStatus, gatewayVars>>

\* Tray "Stop Services": the same with stopContainers alone.
TrayStop ==
    /\ Alive /\ hstate["trayStop"] = "idle"
    /\ IF rejectsWhenBusy(dockerOperationInProgress)
       THEN UNCHANGED <<dockerOperationInProgress, hstate>>
       ELSE /\ dockerOperationInProgress' = TRUE
            /\ hstate' = [hstate EXCEPT !["trayStop"] = "down"]
    /\ UNCHANGED <<isQuitting, appState, zombies, hElapsed, hSawHealthy>>
    /\ UNCHANGED <<rendererVars, ipcVars, histVars, appStatus, gatewayVars>>

\* ------------------------------------------ main process: subprocesses

\* The subprocesses started with spawn, and the commands run by execPromise.
Spawned == {"pull", "up", "down", "install"}

Execed == {"download", "symlink"}

\* The operations with a timer: setTimeout(..., PULL_TIMEOUT) in pullImages,
\* setTimeout(..., COMPOSE_TIMEOUT) in startContainers and stopContainers, and
\* the timeout option of exec in execPromise.  The spawn of the install script
\* (lines 634-672) sets none.
timerArmed(kind) == kind \in {"pull", "up", "down", "download", "symlink"}

\* The 'close' handlers: which exit codes resolve.
resolvesOnClose(kind, code) ==
    CASE kind = "pull" -> code = "zero"
      [] kind = "up" -> code = "zero"
      [] kind = "down" -> stopResolvesOn(code)
      [] kind = "install" -> code \in {"zero", "null"}

closeErrorMsg(kind, stderrOutput) ==
    CASE kind = "pull" -> MsgPullFailed
      [] kind = "up" -> startErrorMsg(stderrOutput)
      [] kind = "down" -> MsgDownFailed
      [] kind = "install" -> MsgInstallFailed

timeoutMsg(kind) ==
    CASE kind = "pull" -> MsgPullTimeout
      [] kind = "up" -> MsgUpTimeout
      [] kind = "down" -> MsgDownTimeout

\* A line of output of the pull or the install of the renderer's invoke is
\* passed on as a progress event.
ProcOutput ==
    /\ Alive /\ hstate["ipc"] \in {"pull", "install"}
    /\ EventsInChan < MaxEvents
    /\ chan' = Append(chan, Event(hstate["ipc"]))
    /\ UNCHANGED <<req, rendererVars, mainVars, histVars, appStatus, gatewayVars>>

\* on('close', code): the operation resolves or rejects by the exit code.
\* Restart Services goes on from `compose down` to `compose up`; a finished
\* install script goes on to 'Finalizing setup...' and the symlinks.
ProcClose(o) ==
    /\ Alive /\ hstate[o] \in Spawned
    /\ \E code \in {"zero", "nonzero", "null"} :
       \E stderrOutput \in IF hstate[o] = "up" /\ code = "nonzero"
                            THEN SUBSET StderrMarks ELSE {{}} :
           IF resolvesOnClose(hstate[o], code)
           THEN IF o = "trayRestart" /\ hstate[o] = "down"
                THEN /\ hstate' = [hstate EXCEPT ![o] = "up"]
                     /\ UNCHANGED <<dockerOperationInProgress, chan>>
                ELSE IF hstate[o] = "install"
                THEN /\ hstate' = [hstate EXCEPT ![o] = "symlink"]
                     /\ chan' = Append(chan, Event("install"))
                     /\ UNCHANGED dockerOperationInProgress
                ELSE Settle(o, TRUE, "")
           ELSE Settle(o, FALSE, closeErrorMsg(hstate[o], stderrOutput))
    /\ UNCHANGED <<isQuitting, appState, zombies, hElapsed, hSawHealthy, req>>
    /\ UNCHANGED <<rendererVars, histVars, appStatus, gatewayVars>>

\* on('error', err): the spawn failed.
ProcError(o) ==
    /\ Alive /\ hstate[o] \in Spawned
    /\ Settle(o, FALSE, MsgSpawnError)
    /\ UNCHANGED <<isQuitting, appState, zombies, hElapsed, hSawHealthy, req>>
    /\ UNCHANGED <<rendererVars, histVars, appStatus, gatewayVars>>

\* The timer of a spawned operation fires: the subprocess is sent SIGTERM and
\* the operation rejects; the subprocess lives on until it closes.
OpTimeout(o) ==
    /\ Alive /\ hstate[o] \in Spawned /\ timerArmed(hstate[o])
    /\ zombies' = zombies \cup {hstate[o]}
    /\ Settle(o, FALSE, timeoutMsg(hstate[o]))
    /\ UNCHANGED <<isQuitting, appState, hElapsed, hSawHealthy, req>>
    /\ UNCHANGED <<rendererVars, histVars, appStatus, gatewayVars>>

\* A command run by execPromise ends (the timeout of exec included).  The
\* download must succeed for the install script to be spawned; the symlinks
\* are best effort.
ExecSettles(o) ==
    /\ Alive /\ hstate[o] \in Execed
    /\ \E outcome \in ExecOutcomes :
           IF hstate[o] = "download" /\ execResolves(outcome)
           THEN /\ hstate' = [hstate EXCEPT ![o] = "install"]
                /\ chan' = Append(chan, Event("install"))
                /\ UNCHANGED dockerOperationInProgress
           ELSE IF hstate[o] = "download"
           THEN Settle(o, FALSE, MsgDownloadFailed)
           ELSE Settle(o, TRUE, "")
    /\ UNCHANGED <<isQuitting, appState, zombies, hElapsed, hSawHealthy, req>>
    /\ UNCHANGED <<rendererVars, histVars, appStatus, gatewayVars>>

\* A pull that timed out still prints, and its onProgress still sends.
ZombieOutput ==
    /\ Alive /\ "pull" \in zombies
    /\ EventsInChan < MaxEvents
    /\ chan' = Append(chan, Event("pull"))
    /\ UNCHANGED <<req, rendererVars, mainVars, histVars, appStatus, gatewayVars>>

\* A late 'close' whose reject() reaches the renderer as a second answer.
ZombieCloseSettlesAgain(kind) ==
    /\ Alive /\ kind \in zombies
    /\ zombies' = zombies \ {kind}
    /\ chan' = IF kind \in {"pull", "up"}
               THEN Append(chan, Reply(ReqOf(kind), FALSE, closeErrorMsg(kind, {})))
               ELSE chan
    /\ UNCHANGED <<dockerOperationInProgress, isQuitting, appState, hstate,
                   hElapsed, hSawHealthy, req>>
    /\ UNCHANGED <<rendererVars, histVars, appStatus, gatewayVars>>

\* A subprocess whose operation timed out closes at last: its 'close' handler
\* settles a promise that is settled already.
ZombieClose(kind) ==
    /\ Alive /\ kind \in zombies
    /\ zombies' = zombies \ {kind}
    /\ UNCHANGED <<dockerOperationInProgress, isQuitting, appState, hstate,
                   hElapsed, hSawHealthy>>
    /\ UNCHANGED <<rendererVars, ipcVars, histVars, appStatus, gatewayVars>>

\* -------------------------------------------------- main process: quit

\* if (isQuitting) return;  (line 347)
beforeQuitReturns(quitting) == quitting

\* The application is gone: the main process, its window and the renderer
\* in it.
Exit ==
    /\ appState' = "exited"
    /\ isQuitting' = TRUE
    /\ page' = "closed"
    /\ steps' = ResetSteps
    /\ pc' = "idle"
    /\ runningRef' = FALSE
    /\ error' = NoError
    /\ showRetry' = FALSE
    /\ showInstallDocker' = FALSE
    /\ portModal' = ClosedModal
    /\ attempt' = 0
    /\ listeners' = {}
    /\ req' = NoReq
    /\ chan' = <<>>
    /\ dockerOperationInProgress' = FALSE
    /\ hstate' = [o \in Owners |-> "idle"]
    /\ zombies' = {}
    /\ hElapsed' = 0
    /\ hSawHealthy' = FALSE
    /\ pendingEffects' = 0

\* A request to quit.  The tray's Quit sets isQuitting before it calls
\* app.quit(); closing the last window and the other requests call app.quit()
\* alone.  before-quit either returns, and the application quits, or it holds
\* the quit back, calls cleanupProcesses() and awaits stopContainers().
Quit(viaTray) ==
    /\ Alive
    /\ IF beforeQuitReturns(isQuitting \/ viaTray)
       THEN /\ Exit
            /\ UNCHANGED teardownAttempts
       ELSE /\ isQuitting' = TRUE
            /\ appState' = "teardown"
            /\ hstate' = [hstate EXCEPT !["quit"] = "down"]
            /\ teardownAttempts' = teardownAttempts + 1
            /\ UNCHANGED <<dockerOperationInProgress, zombies, hElapsed, hSawHealthy>>
            /\ UNCHANGED <<rendererVars, ipcVars>>
    /\ UNCHANGED <<nResolve, nStart, dockerChecked, completions, cmdOutcome, fx, progress, nInstall, nDepCheck, appStatus, gatewayVars>>

\* try { await stopContainers(); } catch { }  app.exit(0);  however the
\* `compose down` of before-quit ends (close with any code, spawn error,
\* timeout), the application exits.
TeardownSettles ==
    /\ hstate["quit"] = "down"
    /\ Exit
    /\ UNCHANGED <<histVars, appStatus, gatewayVars>>

\* ------------------------------------------------------- specification

Next ==
    \/ handleConfigDone
    \/ MountEffect
    \/ handleRetry
    \/ OnCheckInstalled
    \/ OnCheckRunning
    \/ OnEvent
    \/ OnPullImages
    \/ OnCheckPorts
    \/ ModalConfirm
    \/ ModalCancel
    \/ OnKillPortProcesses
    \/ OnStart
    \/ DepsDelayElapsed
    \/ OnCheckBackendDeps
    \/ OnInstallBackendDeps
    \/ VerifyDelayElapsed
    \/ OnVerifyDeps
    \/ OnWaitHealthy
    \/ DoneDelayElapsed
    \/ HandleCheckInstalled
    \/ HandleCheckRunning
    \/ HandleCheckPorts
    \/ HandleKillPortProcesses
    \/ HandleCheckBackendDeps
    \/ HandleWaitHealthy
    \/ HealthPoll
    \/ HealthExpire
    \/ IpcPullImages
    \/ IpcStart
    \/ IpcInstallBackendDeps
    \/ TrayRestart
    \/ TrayStop
    \/ ProcOutput
    \/ \E o \in Handlers : ProcClose(o)
    \/ \E o \in Handlers : ProcError(o)
    \/ \E o \in Handlers : OpTimeout(o)
    \/ \E o \in Handlers : ExecSettles(o)
    \/ ZombieOutput
    \/ \E kind \in Spawned : ZombieClose(kind)
    \/ \E viaTray \in BOOLEAN : Quit(viaTray)
    \/ TeardownSettles

Spec == Init /\ [][Next]_vars

\* ------------------------------------- gateway functions on their own

\* The inputs getPortConflicts is called on: the required ports that are
\* bound, what lsof gives for each port, what ps gives for each pid.
PortInputs ==
    [bound : SUBSET REQUIRED_PORTS,
     lsof : [REQUIRED_PORTS -> {LsofFail} \cup {LsofPids(pids) : pids \in SUBSET Pids}],
     ps : [Pids -> {"fail", "node"}]]

\* The lines `compose ps --format json` may print.
PsLineKinds ==
    {Garbage, Container("running", ""), Container("running", "healthy"),
     Container("running", "starting"), Container("exited", "")}

\* The longest status output looked at.
MaxPsLines == 4

RECURSIVE SeqsUpTo(_, _)
SeqsUpTo(S, n) ==
    IF n = 0 THEN {<<>>}
    ELSE LET shorter == SeqsUpTo(S, n - 1)
         IN  shorter \cup {Append(q, x) : q \in shorter, x \in S}

\* The inputs getDockerStatus is called on: how `docker --version` and
\* `docker info` ended, and what the status query gave.
StatusInputs ==
    [installed : ExecOutcomes, running : ExecOutcomes,
     ps : {PsError} \cup {PsLines(l) : l \in SeqsUpTo(PsLineKinds, MaxPsLines)}]

\* The longest email text and the longest password looked at.
MaxEmailText == 5

MaxPasswordLen == 130

\* The credentials startContainers is called with: every email with a good
\* password or none, and every password with a good email or none.
GoodEmail == [given |-> TRUE, more |-> 0, text |-> <<"x", "@", "x", ".", "x">>]

GoodPassword == [given |-> TRUE, len |-> 8]

Emails ==
    {NoEmail} \cup [given : {TRUE}, more : {0, 249, 250},
                    text : SeqsUpTo(EmailChars, MaxEmailText)]

Passwords == {NoPassword} \cup [given : {TRUE}, len : 0..MaxPasswordLen]

CredentialInputs ==
    [composeExists : BOOLEAN,
     config : [adminEmail : Emails, adminPassword : {NoPassword, GoodPassword}]
              \cup [adminEmail : {NoEmail, GoodEmail}, adminPassword : Passwords]]

\* What can happen to one `compose down`: the 'close' handler clears the
\* timer, so the timer only fires before the close; a subprocess sent SIGTERM
\* by the timer closes later or not at all.
DownRuns ==
    LET codes == {"zero", "nonzero", "null"}
    IN  {<<c>> : c \in codes} \cup {<<"error">>, <<"timeout">>}
        \cup {<<"timeout", c>> : c \in codes}

\* The most calls of stopContainers in a row looked at.
MaxStops == 2

\* stopContainers called up to MaxStops times in a row.
StopInputs ==
    [composeExists : BOOLEAN, runs : SeqsUpTo(DownRuns, MaxStops) \ {<<>>}]

\* resolvePortConflicts (SetupPage.tsx 145-173) with the gateway functions
\* it invokes: the probe, the modal with the user's choice, and the freeing
\* of the ports named in the conflicts.  portsOk is what it returns ("thrown"
\* when killPortProcesses rejects); the start loop invokes start exactly on
\* "true".
resolvePortConflicts(bound, lsof, ps, userChoice, still) ==
    LET portResult == getPortConflicts(bound, lsof, ps)
        conflictPorts == {c.port : c \in portResult.conflicts}
    IN  IF portResult.available
        THEN [portsOk |-> "true", modal |-> FALSE, freed |-> {}]
        ELSE IF userChoice = "cancel"
        THEN [portsOk |-> "false", modal |-> TRUE, freed |-> {}]
        ELSE IF killPortProcesses(conflictPorts, lsof, still).ok
        THEN [portsOk |-> "true", modal |-> TRUE, freed |-> conflictPorts]
        ELSE [portsOk |-> "thrown", modal |-> TRUE, freed |-> conflictPorts]

\* The inputs one attempt of the start loop runs on: the ports bound at the
\* probe, the lookups, the user's choice in the modal, and the ports bound
\* after the wait of killPortProcesses.
ResolveInputs ==
    [bound : SUBSET REQUIRED_PORTS,
     lsof : [REQUIRED_PORTS -> {LsofFail} \cup {LsofPids(pids) : pids \in SUBSET Pids}],
     ps : [Pids -> {"fail", "node"}],
     userChoice : {"confirm", "cancel"},
     still : SUBSET REQUIRED_PORTS]

\* The inputs checkBackendDependencies runs on: how `which` ends for each tool.
ProbeInputs == [Tools -> ExecOutcomes]

\* The inputs isDockerInstalled and isDockerRunning run on: the command and
\* how it ends.
DockerProbeInputs == [cmd : {"--version", "info"}, outcome : ExecOutcomes]

\* What can happen to one `compose up`: the 'close' handler clears the timer,
\* so the timer only fires before the close.
UpRuns ==
    LET closes == {UpClose(c, t) : c \in ExitCodes, t \in SUBSET StderrMarks}
    IN  {<<c>> : c \in closes} \cup {<<UpError>>, <<UpTimeout>>}
        \cup {<<UpTimeout, c>> : c \in closes}

\* The inputs killPortProcesses is called on: the ports asked for, what lsof
\* gives for each port, and the ports bound at the probe after the wait.
KillInputs ==
    [ports : SUBSET REQUIRED_PORTS,
     lsof : [REQUIRED_PORTS -> {LsofFail} \cup {LsofPids(pids) : pids \in SUBSET Pids}],
     still : SUBSET REQUIRED_PORTS]

FxCall(f, args) == {[f |-> f, done |-> FALSE, arg |-> arg, out |-> <<>>] : arg \in args}

FxInit ==
    /\ InitApp /\ appStatus = "sawOther" /\ GatewayIdle
    /\ fx \in FxCall("getPortConflicts", PortInputs)
              \cup FxCall("getDockerStatus", StatusInputs)
              \cup FxCall("startContainers", CredentialInputs)
              \cup FxCall("stopContainers", StopInputs)
              \cup FxCall("killPortProcesses", KillInputs)
              \cup FxCall("composeUp", UpRuns)
              \cup FxCall("checkBackendDependencies", ProbeInputs)
              \cup FxCall("dockerProbe", DockerProbeInputs)
              \cup FxCall("resolvePortConflicts", ResolveInputs)

CallGetPortConflicts ==
    /\ fx.f = "getPortConflicts" /\ ~fx.done
    /\ fx' = [fx EXCEPT !.done = TRUE,
                        !.out = getPortConflicts(fx.arg.bound, fx.arg.lsof, fx.arg.ps)]
    /\ UNCHANGED <<rendererVars, ipcVars, mainVars>>
    /\ UNCHANGED <<nResolve, nStart, dockerChecked, completions, cmdOutcome,
                   teardownAttempts, progress, nInstall, nDepCheck, appStatus, gatewayVars>>

FxUnchanged ==
    /\ UNCHANGED <<rendererVars, ipcVars, mainVars>>
    /\ UNCHANGED <<nResolve, nStart, dockerChecked, completions, cmdOutcome,
                   teardownAttempts, progress, nInstall, nDepCheck, appStatus, gatewayVars>>

CallGetDockerStatus ==
    /\ fx.f = "getDockerStatus" /\ ~fx.done
    /\ fx' = [fx EXCEPT !.done = TRUE,
                        !.out = getDockerStatus(fx.arg.installed, fx.arg.running, fx.arg.ps)]
    /\ FxUnchanged

\* startContainers up to its spawn: out tells whether `compose up` is spawned.
CallStartContainers ==
    /\ fx.f = "startContainers" /\ ~fx.done
    /\ fx' = [fx EXCEPT !.done = TRUE,
                        !.out = startContainersSpawns(fx.arg.composeExists, fx.arg.config)]
    /\ FxUnchanged

\* stopContainers called once for each run: out[i] is how call i settled.
CallStopContainers ==
    /\ fx.f = "stopContainers" /\ ~fx.done
    /\ fx' = [fx EXCEPT !.done = TRUE,
                        !.out = [i \in 1..Len(fx.arg.runs) |->
                                    stopContainers(fx.arg.composeExists, fx.arg.runs[i])]]
    /\ FxUnchanged

CallKillPortProcesses ==
    /\ fx.f = "killPortProcesses" /\ ~fx.done
    /\ fx' = [fx EXCEPT !.done = TRUE,
                        !.out = killPortProcesses(fx.arg.ports, fx.arg.lsof, fx.arg.still)]
    /\ FxUnchanged

\* startContainers from its spawn on: out is how the promise settled.
CallComposeUp ==
    /\ fx.f = "composeUp" /\ ~fx.done
    /\ fx' = [fx EXCEPT !.done = TRUE, !.out = startContainers(fx.arg)]
    /\ FxUnchanged

\* checkBackendDependencies up to its await: Promise.all has started the four
\* probes.
CallCheckBackendDependencies ==
    /\ fx.f = "checkBackendDependencies" /\ ~fx.done /\ fx.out = <<>>
    /\ fx' = [fx EXCEPT !.out = ProbesStarted]
    /\ FxUnchanged

\* One of the probes settles, in any order.  A probe that rejects rejects
\* Promise.all at once, and with it the function.
ProbeSettles(t) ==
    /\ fx.f = "checkBackendDependencies" /\ ~fx.done /\ fx.out # <<>>
    /\ t \notin fx.out.settled
    /\ LET v == checkCommand(fx.arg[t])
       IN  fx' = [fx EXCEPT !.out.settled = @ \cup {t},
                            !.out.installed = IF v = "true" THEN @ \cup {t} ELSE @,
                            !.out.state = IF v = "rejected" THEN "rejected" ELSE @,
                            !.done = (v = "rejected")]
    /\ FxUnchanged

\* All four have settled: Promise.all resolves and the function returns
\* (line 618), the result kept as the tools not found.
JoinProbes ==
    /\ fx.f = "checkBackendDependencies" /\ ~fx.done /\ fx.out # <<>>
    /\ fx.out.settled = Tools
    /\ fx' = [fx EXCEPT !.done = TRUE, !.out.state = "returned",
                        !.out.result = checkBackendDependencies(fx.out.installed)]
    /\ FxUnchanged

\* isDockerInstalled() or isDockerRunning(): out is what the caller gets.
CallDockerProbe ==
    /\ fx.f = "dockerProbe" /\ ~fx.done
    /\ fx' = [fx EXCEPT !.done = TRUE,
                        !.out = IF fx.arg.cmd = "--version"
                                THEN isDockerInstalled(fx.arg.outcome)
                                ELSE isDockerRunning(fx.arg.outcome)]
    /\ FxUnchanged

\* One attempt of the start loop up to its start (SetupPage.tsx 180-195).
CallResolvePortConflicts ==
    /\ fx.f = "resolvePortConflicts" /\ ~fx.done
    /\ fx' = [fx EXCEPT !.done = TRUE,
                        !.out = resolvePortConflicts(fx.arg.bound, fx.arg.lsof, fx.arg.ps,
                                                     fx.arg.userChoice, fx.arg.still)]
    /\ FxUnchanged

FxNext ==
    \/ CallResolvePortConflicts
    \/ CallCheckBackendDependencies
    \/ \E t \in Tools : ProbeSettles(t)
    \/ JoinProbes
    \/ CallDockerProbe
    \/ CallComposeUp
    \/ CallGetPortConflicts
    \/ CallGetDockerStatus
    \/ CallStartContainers
    \/ CallStopContainers
    \/ CallKillPortProcesses

FxSpec == FxInit /\ [][FxNext]_vars

\* ------------------------------------------- App's status check at start-up

\* App's mount effect (part_002 19-40) has called api.docker.getStatus() and
\* the config page shows meanwhile.
StartInit == InitApp /\ fx = NoFx /\ appStatus = "asked" /\ GatewayIdle

\* ipcMain.handle('docker:get-status', () => getDockerStatus())
HandleGetStatus ==
    /\ Alive /\ appStatus = "asked"
    /\ \E io \in ExecOutcomes, ro \in ExecOutcomes, ps \in PsSamples :
           appStatus' = IF getDockerStatus(io, ro, ps).healthy
                        THEN "replyHealthy" ELSE "replyOther"
    /\ UNCHANGED <<rendererVars, ipcVars, mainVars, histVars, gatewayVars>>

\* if (status.healthy) setPage('ready'): SetupPage, if it is mounted, is
\* unmounted and its effect cleanup removes the progress listeners; the
\* runSetup under way is not stopped by that.
OnGetStatus ==
    /\ Alive /\ appStatus \in {"replyHealthy", "replyOther"}
    /\ IF appStatus = "replyHealthy"
       THEN /\ appStatus' = "sawHealthy"
            /\ page' = "ready"
            /\ pendingEffects' = 0
            /\ listeners' = listeners \ {"pull", "status", "install"}
       ELSE /\ appStatus' = "sawOther"
            /\ UNCHANGED <<page, pendingEffects, listeners>>
    /\ UNCHANGED <<steps, pc, runningRef, error, showRetry, showInstallDocker,
                   portModal, attempt>>
    /\ UNCHANGED <<ipcVars, mainVars, histVars, gatewayVars>>

\* The application from its start, the status check under way, with the
\* window's pipeline and the handlers of its invokes.
StartNext ==
    \/ HandleGetStatus
    \/ OnGetStatus
    \/ handleConfigDone
    \/ MountEffect
    \/ handleRetry
    \/ OnCheckInstalled
    \/ OnCheckRunning
    \/ OnEvent
    \/ OnPullImages
    \/ OnCheckPorts
    \/ ModalConfirm
    \/ ModalCancel
    \/ OnKillPortProcesses
    \/ OnStart
    \/ DepsDelayElapsed
    \/ OnCheckBackendDeps
    \/ OnInstallBackendDeps
    \/ VerifyDelayElapsed
    \/ OnVerifyDeps
    \/ OnWaitHealthy
    \/ DoneDelayElapsed
    \/ HandleCheckInstalled
    \/ HandleCheckRunning
    \/ HandleCheckPorts
    \/ HandleKillPortProcesses
    \/ HandleCheckBackendDeps
    \/ HandleWaitHealthy
    \/ HealthPoll
    \/ HealthExpire
    \/ IpcPullImages
    \/ IpcStart
    \/ IpcInstallBackendDeps
    \/ ProcOutput
    \/ ProcClose("ipc")
    \/ ProcError("ipc")
    \/ OpTimeout("ipc")
    \/ ExecSettles("ipc")
    \/ ZombieOutput
    \/ \E kind \in Spawned : ZombieClose(kind)

StartSpec == StartInit /\ [][StartNext]_vars

\* ------------------------------------- gateway: the subprocess registry

\* activeProcesses.add(...) follows the spawn in pullImages, startContainers
\* and stopContainers (lines 426, 481, 533); installBackendDependencies and
\* execPromise have no such line.
registers(kind) == kind \in {"pull", "up", "down"}

\* proc.kill(signal): a live subprocess gets the signal and proc.killed is
\* set; for a subprocess that is gone kill returns false and nothing changes.
kill(p, signal) ==
    IF p.alive THEN [p EXCEPT !.signals = @ \cup {signal}, !.killed = TRUE] ELSE p

\* spawn / exec of a subprocess by the operation of its kind.
Launch(id, kind) ==
    /\ procs[id].kind = "none"
    /\ procs' = [procs EXCEPT ![id] = [NoProc EXCEPT !.kind = kind, !.alive = TRUE,
                                                     !.timer = timerArmed(kind)]]
    /\ activeProcesses' = IF registers(kind) THEN activeProcesses \cup {id}
                          ELSE activeProcesses
    /\ UNCHANGED shutdown

\* What the 'close' and the 'error' handlers do with the registry and the
\* timer: clearTimeout, activeProcesses.delete where the kind has the lines.
Unregister(id) ==
    /\ procs' = [procs EXCEPT ![id].alive = FALSE, ![id].timer = FALSE]
    /\ activeProcesses' = IF registers(procs[id].kind) THEN activeProcesses \ {id}
                          ELSE activeProcesses
    /\ UNCHANGED shutdown

\* on('close', code)
ProcCloses(id) == procs[id].alive /\ Unregister(id)

\* on('error', err): the spawn failed, there is no subprocess.
ProcErrors(id) ==
    /\ procs[id].alive /\ procs[id].kind \in Spawned /\ procs[id].signals = {}
    /\ Unregister(id)

\* The timer of pullImages, startContainers or stopContainers fires:
\* proc.kill('SIGTERM') (exec does the same for its timeout option).
TimerFires(id) ==
    /\ procs[id].alive /\ procs[id].timer
    /\ procs' = [procs EXCEPT ![id] = [kill(procs[id], "SIGTERM") EXCEPT !.timer = FALSE]]
    /\ UNCHANGED <<activeProcesses, shutdown>>

\* cleanupProcesses(): every subprocess of the registry whose `killed` is not
\* set is sent SIGTERM and gets a 5 s timer; then the registry is cleared.
cleanupProcesses ==
    /\ shutdown = "no"
    /\ procs' = [id \in ProcIds |->
                   IF id \notin activeProcesses THEN procs[id]
                   ELSE IF procs[id].killed THEN [procs[id] EXCEPT !.tracked = TRUE]
                   ELSE [kill(procs[id], "SIGTERM") EXCEPT !.tracked = TRUE,
                                                          !.graceTimer = TRUE]]
    /\ activeProcesses' = {}
    /\ shutdown' = "signalled"

\* The 5 s are over: setTimeout(() => { if (!proc.killed) proc.kill('SIGKILL') }).
GraceElapsed ==
    /\ shutdown = "signalled"
    /\ procs' = [id \in ProcIds |->
                   IF ~procs[id].graceTimer THEN procs[id]
                   ELSE IF ~procs[id].killed
                   THEN [kill(procs[id], "SIGKILL") EXCEPT !.graceTimer = FALSE]
                   ELSE [procs[id] EXCEPT !.graceTimer = FALSE]]
    /\ shutdown' = "graceOver"
    /\ UNCHANGED activeProcesses

GatewayUnchanged ==
    /\ UNCHANGED <<rendererVars, ipcVars, mainVars, histVars, appStatus>>

GatewayInit == InitApp /\ fx = NoFx /\ appStatus = "sawOther" /\ GatewayIdle

GatewayNext ==
    \/ \E id \in ProcIds, kind \in Spawned \cup Execed : Launch(id, kind) /\ GatewayUnchanged
    \/ \E id \in ProcIds : ProcErrors(id) /\ GatewayUnchanged
    \/ \E id \in ProcIds : ProcCloses(id) /\ GatewayUnchanged
    \/ \E id \in ProcIds : TimerFires(id) /\ GatewayUnchanged
    \/ cleanupProcesses /\ GatewayUnchanged
    \/ GraceElapsed /\ GatewayUnchanged

GatewaySpec == GatewayInit /\ [][GatewayNext]_vars

\* ------------------------------------------------------------ fairness

\* What the event loops, the timers and the user at the modal do sooner or
\* later.  Nothing is assumed of a subprocess that has no timer, of the tray,
\* of Retry and of quit requests.
Fairness ==
    /\ WF_vars(MountEffect)
    /\ WF_vars(OnEvent)
    /\ WF_vars(OnCheckInstalled \/ OnCheckRunning \/ OnPullImages \/ OnCheckPorts
               \/ OnKillPortProcesses \/ OnStart \/ OnCheckBackendDeps
               \/ OnInstallBackendDeps \/ OnVerifyDeps \/ OnWaitHealthy)
    /\ WF_vars(DepsDelayElapsed \/ VerifyDelayElapsed \/ DoneDelayElapsed)
    /\ WF_vars(ModalConfirm \/ ModalCancel)
    /\ WF_vars(HandleCheckInstalled \/ HandleCheckRunning \/ HandleCheckPorts
               \/ HandleKillPortProcesses \/ HandleCheckBackendDeps
               \/ HandleWaitHealthy \/ IpcPullImages \/ IpcStart
               \/ IpcInstallBackendDeps)
    /\ WF_vars(HealthPoll \/ HealthExpire)
    /\ WF_vars(\E o \in Handlers : OpTimeout(o))
    /\ WF_vars(\E o \in Handlers : ExecSettles(o))
    /\ WF_vars(TeardownSettles)

LiveSpec == Init /\ [][Next]_vars /\ Fairness

\* ---------------------------------------------------------------- claims

\* A step of the application in which runSetup is called while a run is
\* active: the mount effect runs with runningRef set.  (Retry is not there to
\* be clicked then, see C1.)
CallWhileActive == runningRef /\ pendingEffects' = pendingEffects - 1 /\ Alive'

GuardedKinds == Spawned \cup Execed

\* C2 as stated: in every reachable state at most one guarded operation
\* (compose pull, up, down, dependency install) is proceeding.
C2_OneGuardedOperation ==
    Cardinality({o \in Owners : hstate[o] \in GuardedKinds}) <= 1

\* C3: an accepted retry leaves no step with the result it had: the Docker
\* step is running again, the four others are pending and the Docker check is
\* the request made; and in every run a step after the Docker check leaves
\* pending only once the Docker checks of that same run have passed.
C3_RetryStartsOver ==
    /\ [](\A k \in StepSet \ {"docker"} : steps[k] # "pending" => dockerChecked)
    /\ [][(showRetry /\ runningRef') =>
             /\ steps' = [ResetSteps EXCEPT !["docker"] = "loading"]
             /\ pc' = "checkInstalled"
             /\ req' = Invoke("checkInstalled")
             /\ ~dockerChecked']_vars

\* C3 witness: the pull of an earlier run timed out (its subprocess still
\* lives), the retry was accepted, the Docker checks passed again and the pull
\* step, where the earlier run failed, is running again.
C3_Witness ==
    /\ "pull" \in zombies /\ pc = "pullImages"
    /\ steps["docker"] = "success" /\ steps["images"] = "loading" /\ dockerChecked

\* C4: the start operation and the port resolution are never called more
\* than MaxAttempts times in a run; and when the third start of a run fails
\* with the port-conflict error (the two before it failed with a port error,
\* or there had been no third), the run ends there, at the container-start
\* step, with that error, after exactly three resolutions and three starts.
C4_ThreePortConflictsEndTheRun ==
    /\ [](nStart <= MaxAttempts /\ nResolve <= MaxAttempts)
    /\ [][(/\ pc = "start" /\ nStart = MaxAttempts /\ HeadIsReply("start")
           /\ ~Head(chan).ok /\ Head(chan).val = MsgPortConflict
           /\ chan' = Tail(chan) /\ Alive') =>
             /\ pc' = "failed"
             /\ steps'["containers"] = "error"
             /\ error'.message = MsgPortConflict
             /\ showRetry' /\ ~runningRef'
             /\ nResolve' = MaxAttempts /\ nStart' = MaxAttempts
             /\ req' = NoReq]_vars

\* C4 witness: a run that failed at its third start with the port-conflict
\* error.
C4_Witness ==
    /\ pc = "failed" /\ steps["containers"] = "error"
    /\ error.message = MsgPortConflict
    /\ nStart = MaxAttempts /\ nResolve = MaxAttempts

\* C5: a step has left pending only if every step before it is success, and
\* at most one step is running.
C5_StepsInOrder ==
    /\ \A k \in StepSet : steps[k] # "pending" =>
           \A j \in StepSet : StepIndex(j) < StepIndex(k) => steps[j] = "success"
    /\ Cardinality({k \in StepSet : steps[k] = "loading"}) <= 1

\* C5 witness: the last step is running, the four before it are done.
C5_Witness == steps["ready"] = "loading" /\ steps["deps"] = "success"

\* C6: a step that is success stays success in every step of the
\* application, events delivered after the operation's reply included, unless
\* a new run starts (or the application is gone).
C6_SuccessIsKept ==
    [][\A k \in StepSet : steps[k] = "success" =>
           \/ steps'[k] = "success"
           \/ ~runningRef /\ runningRef'
           \/ ~Alive']_vars

\* C6 witness: the pull step is success and a pull-progress event is still on
\* its way to the renderer.
C6_Witness ==
    /\ steps["images"] = "success"
    /\ \E i \in 1..Len(chan) : chan[i].t = "ev" /\ chan[i].op = "pull"

\* C7 as stated: for every port checkRequiredPorts reports blocked,
\* getPortConflicts returns an entry with that port.
C7_BlockedPortHasEntry ==
    (fx.f = "getPortConflicts" /\ fx.done) =>
        \A P \in checkRequiredPorts(fx.arg.bound).blockedPorts :
            \E c \in fx.out.conflicts : c.port = P

\* C8: waitForHealthy does not throw, and what it returns is whether one of
\* the status queries of this call reported healthy.
C8_HealthyIffSeen ==
    \A i \in 1..Len(chan) :
        (chan[i].t = "reply" /\ chan[i].op = "waitHealthy") =>
            chan[i].ok /\ (chan[i].val <=> hSawHealthy)

\* C8 witness: waitForHealthy has returned true after a round that did not
\* find the stack healthy.
C8_Witness ==
    /\ hElapsed > 0
    /\ \E i \in 1..Len(chan) :
           chan[i].t = "reply" /\ chan[i].op = "waitHealthy" /\ chan[i].val = TRUE

\* C9 as stated: when the application has exited, exactly one compose-down
\* teardown had been attempted.
C9_OneTeardownBeforeExit == appState = "exited" => teardownAttempts = 1

\* C10 as stated: every step that is running becomes success or error (or the
\* application exits).
C10_RunningStepSettles ==
    \A k \in StepSet :
        (steps[k] = "loading") ~> (steps[k] \in {"success", "error"} \/ ~Alive)

Terminal == {"failed", "doneDelay", "done"}

\* C12: in every terminal state of a run runningRef is released; after a
\* terminal failure Retry is offered on the setup page, and the next step the
\* run's position takes is the start of a new run.
C12_TerminalReleasesRun ==
    /\ [](pc \in Terminal => ~runningRef)
    /\ [](pc = "failed" => showRetry /\ page = "setup" /\ pendingEffects = 0)
    /\ [][(pc = "failed" /\ pc' # "failed" /\ Alive') =>
             /\ runningRef' /\ cmdOutcome' = "started"
             /\ pc' = "checkInstalled"]_vars

\* C12 witness: a run that failed at the health check, released, Retry offered.
C12_Witness ==
    /\ pc = "failed" /\ steps["ready"] = "error"
    /\ ~runningRef /\ showRetry

\* The invokes the model's renderer sends that are guarded by the flag.
GuardedReqs == {"pullImages", "start", "installBackendDeps"}

C14_CompletionOnce ==
    /\ [](completions <= 1)
    /\ [](Alive => (completions = 1 <=> pc = "done"))
    /\ [][completions' # completions =>
             pc = "doneDelay" /\ pc' = "done" /\ completions' = completions + 1]_vars

\* C14 witness: a run is Done and onComplete has been called once.
C14_Witness == pc = "done" /\ completions = 1 /\ page = "ready"

\* The renderer takes the reply of `op` off the channel.
Consumes(op) == HeadIsReply(op) /\ chan' = Tail(chan) /\ Alive'

\* The await runSetup is suspended at ends by itself (a timer).
TimerEnds(at) == pc = at /\ pc' # at /\ Alive'

\* C15: with every operation answering well, ports free and tools missing at
\* the first probe, each step of the run hands over to the next in the order
\* Docker check, image pull (success at progress 100), container start
\* (invoked at once after the free probe, no modal, same attempt), dependency
\* install (install invoked, re-check passing), health check, Done.
C15_HappyPathStepByStep ==
    [][/\ (pc = "checkInstalled" /\ Consumes("checkInstalled") /\ Head(chan).val) =>
             pc' = "checkRunning" /\ steps' = steps
       /\ (pc = "checkRunning" /\ Consumes("checkRunning") /\ Head(chan).val) =>
             /\ pc' = "pullImages" /\ steps'["docker"] = "success"
             /\ steps'["images"] = "loading" /\ progress' = 0
       /\ (pc = "pullImages" /\ Consumes("pullImages") /\ Head(chan).ok) =>
             /\ pc' = "checkPorts" /\ steps'["images"] = "success" /\ progress' = 100
             /\ steps'["containers"] = "loading" /\ attempt' = 0
       /\ (pc = "checkPorts" /\ Consumes("checkPorts") /\ Head(chan).val.available) =>
             /\ pc' = "start" /\ ~portModal'.open
             /\ attempt' = attempt /\ nStart' = nStart + 1
       /\ (pc = "start" /\ Consumes("start") /\ Head(chan).ok) =>
             /\ pc' = "depsDelay" /\ steps'["containers"] = "success"
             /\ steps'["deps"] = "loading"
       /\ TimerEnds("depsDelay") => pc' = "checkBackendDeps"
       /\ (pc = "checkBackendDeps" /\ Consumes("checkBackendDeps") /\ Head(chan).val # {}) =>
             pc' = "installBackendDeps" /\ nInstall' = 1
       /\ (pc = "installBackendDeps" /\ Consumes("installBackendDeps") /\ Head(chan).ok) =>
             pc' = "verifyDelay" /\ steps'["deps"] = "loading"
       /\ TimerEnds("verifyDelay") => pc' = "verifyDeps"
       /\ (pc = "verifyDeps" /\ Consumes("checkBackendDeps") /\ Head(chan).val = {}) =>
             /\ pc' = "waitHealthy" /\ steps'["deps"] = "success"
             /\ steps'["ready"] = "loading"
       /\ (pc = "waitHealthy" /\ Consumes("waitHealthy") /\ Head(chan).val) =>
             pc' = "doneDelay" /\ steps'["ready"] = "success"
       /\ TimerEnds("doneDelay") => pc' = "done" /\ steps' = steps]_vars

\* C15 witness: Done after one probe, one start, one install and its re-check.
C15_Witness ==
    /\ pc = "done" /\ \A k \in StepSet : steps[k] = "success"
    /\ progress = 100 /\ attempt = 0 /\ nResolve = 1 /\ nStart = 1
    /\ nInstall = 1 /\ nDepCheck = 2

\* The start failures that name no port.
NonPortStartErrors ==
    {MsgNoImage, MsgCannotConnect, MsgUpTimeout, MsgInProgress,
     MsgInvalidCredentials, MsgUpFailed, MsgComposeMissing, MsgSpawnError}

\* C16: a start that fails with a message that names no port ends the run at
\* once at the container-start step: the error box shows the message, nothing
\* is requested, and the counts of port resolutions, starts and attempts stay;
\* an attempt is only used up by a failure that names a port.
C16_NonPortFailureIsTerminal ==
    [][/\ (/\ pc = "start" /\ Consumes("start") /\ ~Head(chan).ok
           /\ Head(chan).val \in NonPortStartErrors) =>
             /\ pc' = "failed" /\ steps'["containers"] = "error"
             /\ error' = [title |-> "Start Failed", message |-> Head(chan).val,
                          missing |-> {}]
             /\ req' = NoReq
             /\ UNCHANGED <<nResolve, nStart, attempt>>
       /\ (attempt' > attempt /\ Alive') =>
             /\ chan # <<>> /\ Head(chan).t = "reply" /\ ~Head(chan).ok
             /\ Head(chan).val \in {MsgPortConflict, MsgPortStillInUse}]_vars

\* C16 witness: the first start failed for a missing image and the run is over.
C16_Witness ==
    /\ pc = "failed" /\ steps["containers"] = "error"
    /\ error.message = MsgNoImage /\ nStart = 1 /\ nResolve = 1 /\ attempt = 0

\* C17: start is invoked only on a free probe or on a killPortProcesses that
\* found its ports free again, at most once per attempt and never without the
\* probe of that attempt; a probe with conflicts opens the modal and requests
\* nothing; killPortProcesses is requested only by the confirm of the open
\* modal, for the ports the modal shows.
C17_ProbeBeforeStart ==
    /\ [](nStart <= nResolve)
    /\ [](pc \in {"checkPorts", "portModal", "killPortProcesses"} =>
              nResolve = attempt + 1 /\ nStart <= attempt)
    /\ [][/\ (nStart' > nStart /\ Alive') =>
                /\ \/ pc = "checkPorts" /\ Consumes("checkPorts")
                      /\ Head(chan).val.available
                   \/ pc = "killPortProcesses" /\ Consumes("killPortProcesses")
                      /\ Head(chan).ok
                /\ nStart' = nStart + 1 /\ nStart' <= nResolve
                /\ nResolve = attempt + 1 /\ req' = Invoke("start")
          /\ (pc = "checkPorts" /\ Consumes("checkPorts") /\ ~Head(chan).val.available) =>
                /\ pc' = "portModal" /\ portModal'.open /\ req' = NoReq
                /\ portModal'.conflicts = Head(chan).val.conflicts
                /\ UNCHANGED <<nStart, nResolve>>
          /\ (req'.op = "killPortProcesses" /\ req.op # "killPortProcesses") =>
                /\ pc = "portModal" /\ portModal.open
                /\ req'.arg = portModal.conflicts
          /\ (pc = "killPortProcesses" /\ Consumes("killPortProcesses")
              /\ ~Head(chan).ok) => nStart' = nStart]_vars

\* C17 witness: the probe found conflicts, the user confirmed, and
\* killPortProcesses answers that the ports are free: start is invoked next.
C17_Witness ==
    /\ pc = "killPortProcesses" /\ HeadIsReply("killPortProcesses") /\ Head(chan).ok
    /\ nStart = 0 /\ nResolve = 1 /\ ~portModal.open

\* C18: the cancel of the modal ends the run with Port Conflict at the
\* container-start step; nothing is requested of the main process, no start
\* is counted, the attempt is not advanced and the two later steps are pending.
C18_CancelEndsRun ==
    /\ [][(pc = "portModal" /\ pc' = "failed" /\ Alive') =>
             /\ steps'["containers"] = "error"
             /\ error'.title = "Port Conflict"
             /\ steps'["deps"] = "pending" /\ steps'["ready"] = "pending"
             /\ req' = NoReq /\ ~portModal'.open
             /\ UNCHANGED <<nStart, nResolve, attempt, chan, mainVars>>]_vars
    /\ []((pc = "failed" /\ error.title = "Port Conflict") =>
             /\ req = NoReq /\ nStart <= attempt /\ nResolve = attempt + 1
             /\ steps["deps"] = "pending" /\ steps["ready"] = "pending")

\* C18 witness: the run was cancelled at the modal of its first attempt.
C18_Witness ==
    /\ pc = "failed" /\ error.title = "Port Conflict"
    /\ steps["containers"] = "error" /\ nStart = 0 /\ showRetry

\* C19: the probe answers for the four tools; with none missing the step is
\* done and nothing is installed; with some missing the install is invoked,
\* once in the run, and after it resolved the probe is made once more; tools
\* still missing then end the run with an error that names exactly them.
C19_InstallOnceRecheckOnce ==
    /\ [](Cardinality(Tools) = 4 /\ nInstall <= 1 /\ nDepCheck <= nInstall + 1)
    /\ [](pc \in {"verifyDelay", "installBackendDeps"} => nInstall = 1 /\ nDepCheck = 1)
    /\ [](pc = "verifyDeps" => nInstall = 1 /\ nDepCheck = 2)
    /\ [][/\ (pc = "checkBackendDeps" /\ Consumes("checkBackendDeps")) =>
                /\ Head(chan).val \subseteq Tools
                /\ IF Head(chan).val = {}
                   THEN /\ steps'["deps"] = "success" /\ pc' = "waitHealthy"
                        /\ nInstall' = 0
                   ELSE /\ req' = Invoke("installBackendDeps") /\ nInstall' = 1
          /\ (pc = "verifyDeps" /\ Consumes("checkBackendDeps")) =>
                /\ nInstall' = 1 /\ req'.op # "installBackendDeps"
                /\ IF Head(chan).val = {}
                   THEN steps'["deps"] = "success" /\ pc' = "waitHealthy"
                   ELSE /\ pc' = "failed" /\ steps'["deps"] = "error"
                        /\ error' = [title |-> "Dependencies Failed",
                                     message |-> "Still missing",
                                     missing |-> Head(chan).val]]_vars

\* C19 witness: the re-check found two tools still missing and the run ended.
C19_Witness ==
    /\ pc = "failed" /\ steps["deps"] = "error"
    /\ error.message = "Still missing" /\ Cardinality(error.missing) = 2
    /\ nInstall = 1 /\ nDepCheck = 2

\* C20: Docker not installed ends the run at the Docker check with the
\* install action and Retry offered; Docker not running ends it there with
\* 'Start Docker Desktop and retry.'; after either no later step has begun,
\* nothing is requested or under way for the renderer, and the run's position
\* only moves again by handleRetry.
C20_DockerCheckFailure ==
    /\ [][/\ (pc = "checkInstalled" /\ Consumes("checkInstalled") /\ ~Head(chan).val) =>
                /\ pc' = "failed" /\ steps'["docker"] = "error"
                /\ error'.title = "Docker Required"
                /\ showInstallDocker' /\ showRetry'
          /\ (pc = "checkRunning" /\ Consumes("checkRunning") /\ ~Head(chan).val) =>
                /\ pc' = "failed" /\ steps'["docker"] = "error"
                /\ error' = [title |-> "Docker Not Running",
                             message |-> "Start Docker Desktop and retry.",
                             missing |-> {}]
                /\ ~showInstallDocker' /\ showRetry'
          /\ (/\ pc = "failed" /\ steps["docker"] = "error" /\ Alive'
              /\ <<steps, pc, req, dockerChecked>>' # <<steps, pc, req, dockerChecked>>) =>
                cmdOutcome' = "started" /\ showRetry]_vars
    /\ []((pc = "failed" /\ steps["docker"] = "error") =>
             /\ \A k \in StepSet \ {"docker"} : steps[k] = "pending"
             /\ req = NoReq /\ hstate["ipc"] = "idle" /\ ~dockerChecked
             /\ \A i \in 1..Len(chan) : chan[i].t # "reply")

\* C20 witness: the run ended because Docker is not installed.
C20_Witness ==
    /\ pc = "failed" /\ steps["docker"] = "error"
    /\ error.title = "Docker Required" /\ showInstallDocker /\ showRetry

\* getDockerStatus has returned.
StatusReturned == fx.f = "getDockerStatus" /\ fx.done

\* The records of the status output: the indices of the lines that parse.
Records == {i \in 1..Len(fx.arg.ps.lines) : fx.arg.ps.lines[i].parses}

\* C24: whatever the version check, the daemon check and the status query
\* gave, the status returned has containersUp only with running, running only
\* with installed, and healthy only with containersUp.
C24_StatusImplications ==
    StatusReturned =>
        /\ fx.out.containersUp => fx.out.running
        /\ fx.out.running => fx.out.installed
        /\ fx.out.healthy => fx.out.containersUp

\* C24 witness: a status with all four flags set.
C24_Witness ==
    /\ StatusReturned /\ fx.out.healthy /\ fx.out.containersUp
    /\ fx.out.running /\ fx.out.installed

\* C26: containersUp is reported only for at least three records in state
\* 'running', and healthy only when, besides, every record has no health or
\* health 'healthy'.
C26_UpNeedsThreeRunning ==
    StatusReturned =>
        /\ fx.out.containersUp =>
              Cardinality({i \in Records : fx.arg.ps.lines[i].State = "running"}) >= 3
        /\ fx.out.healthy =>
              /\ fx.out.containersUp
              /\ \A i \in Records : fx.arg.ps.lines[i].Health \in {"", "healthy"}

\* C26 witness: three running records, one of them still starting: up, not
\* healthy.
C26_Witness ==
    /\ StatusReturned /\ fx.out.containersUp /\ ~fx.out.healthy
    /\ Cardinality(Records) = 3

\* C27: a line that does not parse is skipped, so that the status is the one
\* of the output without that line; and an output that is not empty and of
\* which no line parses gives containersUp = false with an error detail.
C27_ParseFailures ==
    (StatusReturned /\ fx.arg.ps.ok /\ fx.arg.ps.lines # <<>>
       /\ isDockerInstalled(fx.arg.installed) /\ isDockerRunning(fx.arg.running)) =>
        /\ Records # {} =>
              fx.out = getDockerStatus(fx.arg.installed, fx.arg.running,
                           PsLines(SelectSeq(fx.arg.ps.lines, LAMBDA c : c.parses)))
        /\ Records = {} => ~fx.out.containersUp /\ fx.out.error

\* C22: of the credentials passed to startContainers, an email that, trimmed,
\* does not have the shape local@domain.tld or is longer than 254 characters,
\* and a password of any length from 0 upward outside 8..128, keep `compose
\* up` from being spawned; a password of length 8 does not.
C22_BadCredentialsNeverSpawn ==
    (fx.f = "startContainers" /\ fx.done) =>
        LET email == fx.arg.config.adminEmail
            password == fx.arg.config.adminPassword
        IN  /\ (email.given /\ (~matchesEmail(trim(email)) \/ length(trim(email)) > 254))
                  => ~fx.out
            /\ (password.given /\ ~(password.len \in 8..128)) => ~fx.out
            /\ (fx.arg.composeExists /\ password = GoodPassword
                  /\ email \in {NoEmail, GoodEmail}) => fx.out

\* stopContainers has been called for each run of fx.arg.runs.
Stopped == fx.f = "stopContainers" /\ fx.done

\* `compose down` of call i closed with code 0 or null, its timer not having
\* fired and its spawn not having failed.
ExitsCleanly(i) == fx.arg.runs[i] \in {<<"zero">>, <<"null">>}

\* Call i met one of the three failures: a non-zero exit code, a spawn error
\* or the timeout.
FailureOfDown(i) ==
    \E k \in 1..Len(fx.arg.runs[i]) : fx.arg.runs[i][k] \in {"nonzero", "error", "timeout"}

\* C21 as claimed: every call of stopContainers, the second in a row
\* included, resolves when `compose down` exits with code 0 or null, and
\* fails only on a non-zero exit code, a spawn error or the timeout.
C21_StopFailsOnlyOnThree ==
    Stopped =>
        \A i \in 1..Len(fx.out) :
            /\ (fx.arg.composeExists /\ ExitsCleanly(i)) => fx.out[i] = "resolved"
            /\ fx.out[i] # "resolved" => FailureOfDown(i)

\* C21 amended: every call of stopContainers that spawns `compose down`, the
\* second in a row included, resolves when it exits with code 0 or null, and
\* a call fails only when the compose file is missing, on a non-zero exit
\* code, a spawn error or the timeout.
C21_StopFailsOnlyOnFour ==
    Stopped =>
        \A i \in 1..Len(fx.out) :
            /\ (fx.arg.composeExists /\ ExitsCleanly(i)) => fx.out[i] = "resolved"
            /\ fx.out[i] # "resolved" => (~fx.arg.composeExists \/ FailureOfDown(i))
            /\ fx.out[i] = "resolved" => fx.arg.runs[i][1] \in {"zero", "null"}

\* C21 witness: two calls in a row, the first exits with 0 and the second is
\* ended by a signal (null): both resolve.
C21_Witness ==
    /\ Stopped /\ fx.arg.runs = <<(<<"zero">>), (<<"null">>)>>
    /\ fx.out = <<"resolved", "resolved">>

\* C30: killPortProcesses sends SIGTERM and nothing else, and only to the
\* processes lsof found on a requested port; it resolves exactly when no
\* requested port is bound at the probe after the wait, and otherwise fails
\* with the 'still in use' error for a requested port that is bound, whether
\* or not its owner was signalled.
C30_GracefulThenReprobe ==
    (fx.f = "killPortProcesses" /\ fx.done) =>
        /\ \A sg \in fx.out.signals :
              /\ sg.signal = "SIGTERM"
              /\ \E p \in fx.arg.ports : fx.arg.lsof[p].ok /\ sg.pid \in fx.arg.lsof[p].pids
        /\ fx.out.ok <=> (\A p \in fx.arg.ports : p \notin fx.arg.still)
        /\ ~fx.out.ok =>
              /\ fx.out.message = MsgPortStillInUse
              /\ fx.out.port \in fx.arg.ports /\ fx.out.port \in fx.arg.still

\* C30 witness: the owner of port 3000 was sent SIGTERM and the port is bound
\* at the probe after the wait: the call fails and no other signal was sent.
C30_Witness ==
    /\ fx.f = "killPortProcesses" /\ fx.done
    /\ fx.arg.ports = {3000} /\ fx.arg.still = {3000}
    /\ fx.out.signals = {[pid |-> 101, signal |-> "SIGTERM"]}
    /\ ~fx.out.ok /\ fx.out.port = 3000

\* The pull invoke has been answered and the renderer is about to take the
\* answer.
PullSettles == Alive /\ pc = "pullImages" /\ HeadIsReply("pullImages")

\* C25: while the image-pull step is under way the percentage never goes
\* down and is at most 95; it becomes 100 in the step that takes the
\* successful answer of the pull and in no other; the step that takes a
\* failure leaves it as it is, so a failed pull step never shows 100.
C25_PullProgress ==
    /\ [](pc = "pullImages" => progress <= 95)
    /\ [][(pc = "pullImages" /\ pc' = "pullImages") => progress' >= progress]_vars
    /\ [][(progress' = 100 /\ progress # 100) => PullSettles /\ Head(chan).ok]_vars
    /\ [][(PullSettles /\ Head(chan).ok /\ pc' # pc /\ Alive') => progress' = 100]_vars
    /\ [][(PullSettles /\ ~Head(chan).ok /\ pc' # pc /\ Alive') =>
             /\ progress' = progress
             /\ steps'["images"] = "error"]_vars
    /\ []((Alive /\ steps["images"] = "error") => progress <= 95)

\* C25 witness: a pull has failed with the percentage at its cap.
C25_Witness ==
    Alive /\ pc = "failed" /\ steps["images"] = "error" /\ progress = 95

\* The operations the short cut is there to avoid.
PipelineWork == {"pullImages", "start", "installBackendDeps", "waitHealthy"}

\* C23: once the start-up status check has reported a healthy stack to the
\* window, the ready page shows and no pull, start, dependency install or
\* health wait is invoked from then on; after any other answer the page is
\* left as it is, and a pipeline always begins at the Docker check.
C23_HealthyStackSkipsPipeline ==
    /\ [](appStatus = "sawHealthy" => page = "ready")
    /\ [][(appStatus = "sawHealthy" /\ req' # req) => req'.op \notin PipelineWork]_vars
    /\ [][(appStatus # "sawOther" /\ appStatus' = "sawOther") => page' = page]_vars
    /\ [][(pc = "idle" /\ pc' # "idle") =>
             pc' = "checkInstalled" /\ req' = Invoke("checkInstalled")]_vars

\* C28: while no shutdown has been asked for, every subprocess that has been
\* launched and has not closed or failed is in activeProcesses, and
\* activeProcesses holds no subprocess that has closed.
C28_RegistryHoldsTheLiving ==
    /\ shutdown = "no" => \A id \in ProcIds : procs[id].alive => id \in activeProcesses
    /\ \A id \in activeProcesses : procs[id].alive

\* C29: after cleanupProcesses every subprocess that was in the registry has
\* been sent SIGTERM, and when the 5 seconds are over every one of them that
\* is still alive has been sent SIGKILL.
C29_TermThenKill ==
    /\ shutdown # "no" =>
          \A id \in ProcIds : procs[id].tracked => "SIGTERM" \in procs[id].signals
    /\ shutdown = "graceOver" =>
          \A id \in ProcIds :
              (procs[id].tracked /\ procs[id].alive) => "SIGKILL" \in procs[id].signals

\* `compose up` has been spawned and startContainers has settled.
UpSettled == fx.f = "composeUp" /\ fx.done

PullTimedOut ==
    /\ hstate["ipc"] = "pull" /\ hstate'["ipc"] = "idle"
    /\ chan' = Append(chan, Reply("pullImages", FALSE, MsgPullTimeout))

\* C32: the pull is answered with the timed-out error only in the step in
\* which its timer fires, and the subprocess is then one that was sent SIGTERM
\* and has not closed; when that subprocess closes afterwards, nothing is
\* answered and neither the handler, the flag nor the renderer's run changes;
\* the run that takes the timed-out answer fails at the image step, and that
\* step stays in error with the timed-out message until a retry.
C32_PullTimeoutSettlesOnce ==
    /\ [][(Alive' /\ Len(chan') > Len(chan) /\ chan'[Len(chan')].t = "reply"
             /\ chan'[Len(chan')].op = "pullImages"
             /\ chan'[Len(chan')].val = MsgPullTimeout)
            => (PullTimedOut /\ "pull" \in zombies' /\ ~dockerOperationInProgress')]_vars
    /\ [][("pull" \in zombies /\ "pull" \notin zombies' /\ Alive')
            => UNCHANGED <<chan, req, hstate, dockerOperationInProgress, rendererVars>>]_vars
    /\ [][(PullSettles /\ Head(chan).val = MsgPullTimeout /\ pc' # pc /\ Alive')
            => (pc' = "failed" /\ steps'["images"] = "error"
                /\ error'.message = MsgPullTimeout)]_vars
    /\ []((Alive /\ pc = "failed" /\ error.message = MsgPullTimeout)
            => (steps["images"] = "error" /\ progress # 100
                /\ \A k \in StepSet : steps[k] # "loading"))

\* C32 witness: the run has failed at the image step with the timed-out
\* error, and the subprocess that was sent SIGTERM has closed since.
C32_Witness ==
    /\ Alive /\ pc = "failed" /\ steps["images"] = "error"
    /\ error.message = MsgPullTimeout /\ "pull" \notin zombies

\* The failures of startContainers that come from the configuration.
ConfigurationErrors == {MsgInvalidCredentials, MsgComposeMissing}

\* C33: a start is answered with an invalid-credentials or missing-compose
\* failure without a subprocess having been spawned for it, and the run that
\* takes such an answer ends at the container step at once with no retry
\* button shown.
C33_ConfigurationErrorNoRetry ==
    /\ [][(Alive' /\ Len(chan') > Len(chan) /\ chan'[Len(chan')].t = "reply"
             /\ chan'[Len(chan')].op = "start"
             /\ chan'[Len(chan')].val \in ConfigurationErrors)
            => (req.op = "start" /\ hstate["ipc"] = "idle" /\ UNCHANGED hstate)]_vars
    /\ [][(pc = "start" /\ Consumes("start") /\ ~Head(chan).ok
             /\ Head(chan).val \in ConfigurationErrors)
            => (pc' = "failed" /\ steps'["containers"] = "error" /\ req' = NoReq
                /\ ~showRetry')]_vars

\* checkBackendDependencies is under way or over.
Probing == fx.f = "checkBackendDependencies" /\ fx.out # <<>>

\* C34: the four probes are all under way before any has settled and settle
\* in any order; the function never fails and returns only when all four
\* have settled; a tool counts as installed exactly when its own probe
\* succeeded, and allInstalled (no tool missing) holds exactly when all four
\* probes succeeded.
C34_ProbesJoined ==
    Probing =>
        /\ fx.out.state # "rejected"
        /\ fx.done <=> fx.out.state = "returned"
        /\ fx.done => fx.out.settled = Tools
        /\ \A t \in fx.out.settled : t \in fx.out.installed <=> fx.arg[t] = "exit0"
        /\ fx.out.installed \subseteq fx.out.settled
        /\ fx.done =>
              /\ fx.out.result = {t \in Tools : fx.arg[t] # "exit0"}
              /\ fx.out.result = {} <=> \A t \in Tools : fx.arg[t] = "exit0"

\* C34 witness: the last probe of the list has settled alone, the first three
\* are still under way, and the function has not returned.
C34_Witness ==
    /\ Probing /\ ~fx.done
    /\ fx.out.settled = {"aws"} /\ fx.arg["pnpm"] = "timeout"

\* C35: isDockerInstalled and isDockerRunning give the caller true when the
\* command exits with 0 and false when it exits with another code, is killed
\* by the timeout or has no binary to run; the caller always gets a boolean.
C35_DockerProbesNeverThrow ==
    (fx.f = "dockerProbe" /\ fx.done) =>
        /\ fx.out \in BOOLEAN
        /\ fx.out <=> fx.arg.outcome = "exit0"
        /\ fx.arg.outcome \in {"nonzero", "timeout", "enoent"} => ~fx.out

\* C35 witness: `docker info` was killed by the timeout and isDockerRunning
\* returned false.
C35_Witness ==
    /\ fx.f = "dockerProbe" /\ fx.done
    /\ fx.arg = [cmd |-> "info", outcome |-> "timeout"] /\ fx.out = FALSE

\* C36: an attempt of the start loop goes on to start only when the probe
\* found every required port free, or the user confirmed and every port the
\* probe found blocked was free at the probe after the wait, whether or not
\* a process was found for it.
C36_StartOnlyOnVerifiedPorts ==
    (fx.f = "resolvePortConflicts" /\ fx.done /\ fx.out.portsOk = "true") =>
        LET blockedPorts == checkRequiredPorts(fx.arg.bound).blockedPorts
        IN  \/ blockedPorts = {}
            \/ /\ fx.arg.userChoice = "confirm"
               /\ blockedPorts \cap fx.arg.still = {}

\* C37: the answer of the start-up status check moves the application to the
\* ready page only while no setup run is active; the ready page, once shown,
\* stays; and a run signals completion only if the start-up check did not
\* take the application to the ready page.
C37_FastPathOrPipeline ==
    /\ [][(appStatus # "sawHealthy" /\ appStatus' = "sawHealthy" /\ runningRef)
            => page' # "ready"]_vars
    /\ [][(page = "ready" /\ Alive') => page' = "ready"]_vars
    /\ [](appStatus = "sawHealthy" => completions = 0)

\* The steps in error.
ErrorSteps == {k \in StepSet : steps[k] = "error"}

C39_ListenersRemovedAtEnd ==
    /\ []((Alive /\ pc \in Terminal) => listeners = {})
    /\ [][(pc \in Terminal /\ pc' \in Terminal /\ Alive') => steps' = steps]_vars

\* All five steps are done.
AllSuccess == \A k \in StepSet : steps[k] = "success"

\* C40: completion is signalled only by a run that is waiting out the delay
\* after its health step, with all five steps success and no error shown; a
\* run gets there only by taking the answer `true` of its health wait, and
\* while it waits all five steps stay success.
C40_CompletionOnlyAfterSuccess ==
    /\ [][completions' > completions =>
             (pc = "doneDelay" /\ AllSuccess /\ steps' = steps /\ error = NoError)]_vars
    /\ [][(pc # "doneDelay" /\ pc' = "doneDelay") =>
             (/\ pc = "waitHealthy" /\ HeadIsReply("waitHealthy")
              /\ Head(chan).ok /\ Head(chan).val = TRUE
              /\ chan' = Tail(chan))]_vars
    /\ []((Alive /\ pc \in {"doneDelay", "done"}) => AllSuccess)

\* C40 witness: completion has been signalled by a run whose first start
\* failed on a port and whose second attempt went through.
C40_Witness ==
    /\ Alive /\ pc = "done" /\ completions = 1 /\ AllSuccess
    /\ attempt = 1 /\ nStart = 2

============================================================================
